---- MODULE Spec2Model ----
(***************************************************************************)
(* State-machine model of the virtualvirtualboy native host:               *)
(*   - XrStereoRenderer (xr_stereo_renderer.cpp): session events, frame    *)
(*     and depth-metadata upload, render-path selection, world anchor,     *)
(*     error recording;                                                    *)
(*   - App (native_app.cpp): the per-tick input merge, edge-triggered      *)
(*     toggles, calibration, and the pending-ROM mailbox.                  *)
(*                                                                         *)
(* Numeric conventions: depths are in tenths of a metre, screen scale and  *)
(* convergence in units of 0.00001, one digit finer than the four decimals *)
(* the settings file keeps; layer depths are exact rationals zNum/zDen.    *)
(***************************************************************************)
EXTENDS Integers, Sequences, FiniteSets, TLC

VARIABLES
    xr,         \* the XrStereoRenderer object (its private fields)
    call,       \* what the last renderer call did and returned (observation only)
    metaInput,  \* the depth metadata the caller holds for the next upload
    app,        \* the App object (its fields, and the core's loaded ROM)
    obs,        \* what the last tick saw and did (observation only)
    pendingRom, \* gPendingRom: the picker's single-slot mailbox
    pickerSignal, \* gPickerSignal.dismissed
    settingsFile, \* presentation_settings.cfg in the app's data directory
    threads,    \* positions and locals of the platform thread and the tick
    recon,      \* a StereoDepthReconstructor (config_) and its last call
    mesh,       \* the last mesh construction: its arguments, output and result
    vip         \* a VipMappingEvaluator (its fields) and its last evaluateEye call
                \* thread inside the mailbox's critical sections

xrVars == <<xr, call, metaInput>>
appVars == <<app, obs, pendingRom, pickerSignal, settingsFile>>
geoVars == <<recon, mesh, vip>>
vars ==
    <<xr, call, metaInput, app, obs, pendingRom, pickerSignal, settingsFile, threads,
      recon, mesh, vip>>

(***************************************************************************)
(* Bounds of the model                                                     *)
(***************************************************************************)
MaxEyeWidth == 2      \* model-sized stand-in for the 384-pixel eye width
MaxEyeHeight == 1     \* model-sized stand-in for the 224-pixel eye height
MaxEvents == 1        \* session events the runtime delivers to one xrPollEvent loop
MaxTicks == 2         \* ticks the app specifications run
MaxCount == 2         \* the hold and fire counters of the observation stop here
MaxReloadFrames == 1  \* model-sized stand-in for the 120-tick ROM reload period
MaxDeliveries == 2    \* ROM payloads the picker delivers
MaxChunkFrames == 2   \* model-sized stand-in for the 2048-frame audio chunk
MaxPickers == 2       \* ROM pickers the app opens in one behaviour

(***************************************************************************)
(* Program constants (xr_stereo_renderer.cpp:63-68)                        *)
(***************************************************************************)
kVipEyeWidth == MaxEyeWidth
kVipEyeHeight == MaxEyeHeight
kLayerNearZ == 12
kLayerFarZ == 38
kWorldIdLimit == 32
kDisparityFullScale == 127

\* The limits of the screen scale and the stereo convergence, in thousandths
\* (the same in native_app.cpp and xr_stereo_renderer.cpp), and of the
\* walkthrough offsets and pitch, in millionths (kWalkOffsetLimit = 30.0f and
\* kWalkPitchLimit = 1.20f in native_app.cpp, the literals 30.0f and 1.2f in
\* xr_stereo_renderer.cpp).
kMinScreenScale == 20000
kMaxScreenScale == 100000
kMinStereoConvergence == -8000
kMaxStereoConvergence == 8000
kWalkOffsetLimit == 30000000
kWalkPitchLimit == 1200000

EyeIndices == {0, 1}
NoError == ""

Clamp(v, lo, hi) == IF v < lo THEN lo ELSE IF hi < v THEN hi ELSE v
Abs(v) == IF v < 0 THEN -v ELSE v

\* Width in bits of a mesh index.  The program's indices are uint16_t (16
\* bits, vertex limit 65535); the model's grids are small, so its indices are
\* narrower and its vertex limit is 2^IndexBits - 1.
IndexBits == 4
VertexLimit == 2^IndexBits - 1
ToIndex(v) == v % (2^IndexBits)
Max(a, b) == IF a < b THEN b ELSE a
Min(a, b) == IF b < a THEN b ELSE a

(***************************************************************************)
(* XrStereoRenderer: construction and shutdown                             *)
(***************************************************************************)
ZeroVector == <<0, 0, 0>>

\* Scale and convergence are in thousandths (screenScale_ = 0.68f is 680),
\* walkthrough offsets and angles in millionths.

DebugInit ==
    [usedLayerRendering |-> FALSE, usedDepthFallback |-> FALSE, usedClassic |-> FALSE,
     xrActive |-> FALSE]

XrConstructed ==
    [initialized_ |-> FALSE, sessionRunning_ |-> FALSE, frameReady_ |-> FALSE,
     metadataReady_ |-> FALSE, exitRequested_ |-> FALSE, sideBySideFrame_ |-> FALSE,
     frameWidth_ |-> 0, frameHeight_ |-> 0, metadataWidth_ |-> 0, metadataHeight_ |-> 0,
     depthMetadataEnabled_ |-> FALSE, worldAnchoredEnabled_ |-> FALSE,
     overlayVisible_ |-> FALSE, layerDataReady_ |-> FALSE,
     headOriginSet_ |-> FALSE, headOrigin_ |-> ZeroVector,
     worldUpload_ |-> <<>>, disparityUpload_ |-> <<>>,
     eyeLayers_ |-> [e \in EyeIndices |-> <<>>],
     renderDebugState_ |-> DebugInit,
     screenScale_ |-> 68000, stereoConvergence_ |-> 1600,
     walkThroughOffset_ |-> ZeroVector, walkThroughYaw_ |-> 0, walkThroughPitch_ |-> 0,
     lastError_ |-> NoError]

\* setError / setErrorMessage: the description of the failing step replaces lastError_.
setError(x, context) == [x EXCEPT !.lastError_ = context \o " failed"]

\* endSession(): no-op unless a session is running.
endSession(x) ==
    IF ~x.sessionRunning_ THEN x
    ELSE [x EXCEPT !.sessionRunning_ = FALSE, !.renderDebugState_.xrActive = FALSE]

\* shutdown(): every field back to its constructed value, except the overlay
\* flag, the screen scale and the stereo convergence, which shutdown() does
\* not touch.
shutdown(x) ==
    [XrConstructed EXCEPT !.overlayVisible_ = x.overlayVisible_,
                          !.screenScale_ = x.screenScale_,
                          !.stereoConvergence_ = x.stereoConvergence_]

(***************************************************************************)
(* XrStereoRenderer::initialize                                            *)
(***************************************************************************)
\* The setup steps of initialize(), in call order, each with the description
\* its failure records through setError / setErrorMessage.
InitSteps ==
    <<"xrInitializeLoaderKHR", "xrCreateInstance", "xrGetSystem", "eglInitialize",
      "xrCreateSession", "xrCreateActionSet", "xrCreateReferenceSpace",
      "xrCreateSwapchain", "createGlResources">>

\* initialize(activity): failedStep is the index of the setup step that the
\* platform makes fail (0: all succeed).  Result: [x, ret].
initialize(x, activityPresent, failedStep) ==
    LET cleared == shutdown(x) IN
    IF ~activityPresent
    THEN [x |-> [cleared EXCEPT !.lastError_ = "XrStereoRenderer requires ANativeActivity"],
          ret |-> FALSE]
    ELSE IF failedStep # 0
    THEN \* the failing step records its error, then shutdown() runs again
         [x |-> shutdown(setError(cleared, InitSteps[failedStep])), ret |-> FALSE]
    ELSE [x |-> [cleared EXCEPT !.initialized_ = TRUE, !.lastError_ = NoError],
          ret |-> TRUE]

(***************************************************************************)
(* Session events: beginSession, pollEvents                                *)
(***************************************************************************)
SessionEvents == {"READY", "STOPPING", "EXITING", "LOSS_PENDING", "FOCUSED"}

\* beginSession(): ok is the result of xrBeginSession.
beginSession(x, ok) ==
    IF ~ok THEN setError(x, "xrBeginSession")
    ELSE [x EXCEPT !.headOriginSet_ = FALSE,
                   !.headOrigin_ = ZeroVector,
                   !.layerDataReady_ = FALSE,
                   !.eyeLayers_ = [e \in EyeIndices |-> <<>>],
                   !.renderDebugState_ = [DebugInit EXCEPT !.xrActive = TRUE],
                   !.sessionRunning_ = TRUE]

\* One XR_TYPE_EVENT_DATA_SESSION_STATE_CHANGED event of the xrPollEvent loop.
handleSessionEvent(x, event, beginOk) ==
    CASE event = "READY" -> beginSession(x, beginOk)
      [] event = "STOPPING" -> endSession(x)
      [] event \in {"EXITING", "LOSS_PENDING"} -> [x EXCEPT !.exitRequested_ = TRUE]
      [] OTHER -> x

RECURSIVE drainEvents(_, _, _)
drainEvents(x, events, beginOk) ==
    IF events = <<>> THEN x
    ELSE drainEvents(handleSessionEvent(x, Head(events), beginOk), Tail(events), beginOk)

\* pollEvents(): nothing unless initialized; otherwise the queued events in order.
pollEvents(x, events, beginOk) ==
    IF ~x.initialized_ THEN x ELSE drainEvents(x, events, beginOk)

\* Whether the poll began a session (an observation for the claims).
SessionBegan(x, events, beginOk) ==
    x.initialized_ /\ beginOk /\ \E i \in 1..Len(events) : events[i] = "READY"

\* The event batches one xrPollEvent loop can deliver.
RECURSIVE SeqsUpTo(_, _)
SeqsUpTo(S, n) ==
    IF n = 0 THEN {<<>>}
    ELSE LET shorter == SeqsUpTo(S, n - 1)
         IN shorter \cup {Append(q, e) : q \in shorter, e \in S}

(***************************************************************************)
(* makeCurrent, updateFrame                                                *)
(***************************************************************************)
\* makeCurrent(): the EGL handles exist exactly while initialized; eglOk is the
\* result of eglMakeCurrent.
makeCurrent(x, eglOk) == x.initialized_ /\ eglOk

\* updateFrame(pixels, width, height)
updateFrame(x, pixelsPresent, width, height, eglOk) ==
    IF ~x.initialized_ \/ ~pixelsPresent \/ width <= 0 \/ height <= 0 THEN x
    ELSE IF ~makeCurrent(x, eglOk) THEN x
    ELSE [x EXCEPT !.frameWidth_ = width, !.frameHeight_ = height,
                   !.frameReady_ = TRUE,
                   !.sideBySideFrame_ = (width >= height * 2)]

(***************************************************************************)
(* updateDepthMetadata: per-eye layer lists                                *)
(***************************************************************************)
\* 0-based element of a metadata array (stored as a 1-based sequence).
At(arr, index) == arr[index + 1]

\* The indices updateDepthMetadata visits for one eye:
\* rowOffset + eyeOffset + x for y < kVipEyeHeight, x < kVipEyeWidth.
EyeRegion(width, eye) ==
    {(y * width) + (eye * kVipEyeWidth) + x :
        y \in 0..(kVipEyeHeight - 1), x \in 0..(kVipEyeWidth - 1)}

RECURSIVE SumAbsDisparity(_, _)
SumAbsDisparity(indices, disparity) ==
    IF indices = {} THEN 0
    ELSE LET i == CHOOSE j \in indices : TRUE
         IN Abs(At(disparity, i)) + SumAbsDisparity(indices \ {i}, disparity)

\* z = kLayerFarZ - clamp(avgDisp / 127, 0, 1) * (kLayerFarZ - kLayerNearZ), with
\* avgDisp = sum / count, kept exact as the fraction zNum / zDen (tenths of a metre).
LayerOf(worldId, sum, count) ==
    LET den == kDisparityFullScale * count
        closenessNum == Clamp(sum, 0, den)
    IN [worldId |-> worldId,
        zNum |-> (kLayerFarZ * den) - (closenessNum * (kLayerFarZ - kLayerNearZ)),
        zDen |-> den]

\* a.z > b.z, the comparator handed to std::sort.
FartherThan(a, b) == a.zNum * b.zDen > b.zNum * a.zDen

\* The layers of one eye in the order the accumulation loop pushes them
\* (ascending world id, ids >= 32 skipped, ids without pixels skipped).
RECURSIVE PushLayers(_, _, _, _)
PushLayers(ids, region, disparity, worldIds) ==
    IF ids = {} THEN <<>>
    ELSE LET worldId == CHOOSE i \in ids : \A j \in ids : i <= j
             mine == {k \in region : At(worldIds, k) = worldId}
         IN <<LayerOf(worldId, SumAbsDisparity(mine, disparity), Cardinality(mine))>>
            \o PushLayers(ids \ {worldId}, region, disparity, worldIds)

UnsortedEyeLayers(disparity, worldIds, width, eye) ==
    LET region == EyeRegion(width, eye)
        ids == {At(worldIds, k) : k \in region} \cap (0..(kWorldIdLimit - 1))
    IN PushLayers(ids, region, disparity, worldIds)

\* A variant of SortFarToNear that leaves the layers in push order.
KeepPushOrder(layers) == {layers}

\* std::sort with comparator a.z > b.z: any arrangement of the same elements in
\* which no later element is farther than an earlier one (std::sort is not stable,
\* so layers of equal z may come out in either order).
SortFarToNear(layers) ==
    IF layers = <<>> THEN {<<>>}
    ELSE LET n == Len(layers)
             arranged == {[i \in 1..n |-> layers[f[i]]] : f \in Permutations(1..n)}
         IN {p \in arranged : \A i \in 1..n : \A j \in (i + 1)..n : ~FartherThan(p[j], p[i])}

\* A metadata upload: md.disparityPresent / md.worldIdsPresent say whether the
\* pointers are non-null; md.disparity / md.worldIds hold width * height entries.
metadataRejected(x, md, eglOk) ==
    \/ ~x.initialized_
    \/ ~md.disparityPresent
    \/ ~md.worldIdsPresent
    \/ md.width <= 0
    \/ md.height <= 0
    \/ ~makeCurrent(x, eglOk)

\* updateDepthMetadata: the set of states the call can leave (one per outcome of
\* the two sorts).
updateDepthMetadata(x, md, eglOk) ==
    IF metadataRejected(x, md, eglOk)
    THEN {[x EXCEPT !.metadataReady_ = FALSE, !.layerDataReady_ = FALSE,
                    !.metadataWidth_ = 0, !.metadataHeight_ = 0,
                    !.disparityUpload_ = <<>>,
                    !.eyeLayers_ = [e \in EyeIndices |-> <<>>]]}
    ELSE LET ready == md.width >= (kVipEyeWidth * 2) /\ md.height >= kVipEyeHeight
             stored == [x EXCEPT !.metadataWidth_ = md.width,
                                 !.metadataHeight_ = md.height,
                                 !.metadataReady_ = TRUE,
                                 !.layerDataReady_ = ready,
                                 !.disparityUpload_ = md.disparity,
                                 !.worldUpload_ = md.worldIds,
                                 !.eyeLayers_ = [e \in EyeIndices |-> <<>>]]
         IN IF ~ready THEN {stored}
            ELSE {[stored EXCEPT !.eyeLayers_ = [e \in EyeIndices |-> IF e = 0 THEN l0 ELSE l1]] :
                     l0 \in SortFarToNear(UnsortedEyeLayers(md.disparity, md.worldIds, md.width, 0)),
                     l1 \in SortFarToNear(UnsortedEyeLayers(md.disparity, md.worldIds, md.width, 1))}

(***************************************************************************)
(* renderFrame                                                             *)
(***************************************************************************)
\* Observation of one renderer call: which OpenXR calls failed, what was
\* recorded, which path drew each eye (and, on the classic path, which quad:
\* the anchored one or the flat screen-scaled one), what was returned;
\* eyeOutcome is how
\* far the loop got with each eye ("none": the eye was not reached) and
\* exitPolled is exitRequested_ as renderFrame's pollEvents left it.
CallIdle ==
    [op |-> "none", ret |-> FALSE, sessionBegan |-> FALSE,
     failed |-> {}, errors |-> <<>>,
     located |-> FALSE, head |-> ZeroVector, worldAnchor |-> ZeroVector,
     eyePath |-> [e \in EyeIndices |-> "none"],
     drawn |-> [e \in EyeIndices |-> <<>>],
     quad |-> [e \in EyeIndices |-> "none"],
     eyeOutcome |-> [e \in EyeIndices |-> "none"],
     acquired |-> {}, released |-> {}, frameEnded |-> FALSE,
     exitPolled |-> FALSE]

\* A variant of recordFailure that leaves lastError alone.
recordFailureWithoutSetError(s, context) ==
    [x |-> s.x,
     c |-> [s.c EXCEPT !.failed = @ \cup {context},
                       !.errors = Append(@, context \o " failed")]]

\* A failing OpenXR call inside renderFrame: setError(context, result).
recordFailure(s, context) ==
    [x |-> setError(s.x, context),
     c |-> [s.c EXCEPT !.failed = @ \cup {context},
                       !.errors = Append(@, context \o " failed")]]

\* Head positions the runtime reports; the eyes sit one unit left and right.
HeadPositions == {<<0, 0, 0>>, <<4, -2, 6>>}
EyePosition(head, eye) == <<head[1] + (IF eye = 0 THEN -1 ELSE 1), head[2], head[3]>>

\* (a + b) * 0.5 per component.
Midpoint(a, b) == [k \in 1..3 |-> (a[k] + b[k]) \div 2]

\* Variants of the definitions below, each changing one step.
captureHeadOriginEveryFrame(x, head) ==
    [x EXCEPT !.headOrigin_ = Midpoint(EyePosition(head, 0), EyePosition(head, 1)),
              !.headOriginSet_ = TRUE]

useLayerRenderingUnderOverlay(x, eye) ==
    /\ x.depthMetadataEnabled_
    /\ x.metadataReady_
    /\ x.metadataWidth_ = x.frameWidth_
    /\ x.metadataHeight_ = x.frameHeight_
    /\ x.layerDataReady_
    /\ x.sideBySideFrame_
    /\ eye \in DOMAIN x.eyeLayers_
    /\ x.eyeLayers_[eye] # <<>>

\* The world-anchor capture at the top of the view loop.
captureHeadOrigin(x, head) ==
    IF ~x.headOriginSet_
    THEN [x EXCEPT !.headOrigin_ = Midpoint(EyePosition(head, 0), EyePosition(head, 1)),
                   !.headOriginSet_ = TRUE]
    ELSE x

metadataAligned(x) ==
    /\ x.metadataReady_
    /\ x.metadataWidth_ = x.frameWidth_
    /\ x.metadataHeight_ = x.frameHeight_

useLayerRendering(x, eye) ==
    /\ x.depthMetadataEnabled_
    /\ metadataAligned(x)
    /\ x.layerDataReady_
    /\ x.sideBySideFrame_
    /\ ~x.overlayVisible_
    /\ eye \in DOMAIN x.eyeLayers_
    /\ x.eyeLayers_[eye] # <<>>

\* The if / else-if / else chain that picks the draw path of one eye.
renderPath(x, eye) ==
    IF useLayerRendering(x, eye) THEN "layer"
    ELSE IF x.depthMetadataEnabled_ THEN "fallback"
    ELSE "classic"

\* The debug flag each path sets (for eye 0 only).
markPath(debug, path) ==
    CASE path = "layer" -> [debug EXCEPT !.usedLayerRendering = TRUE]
      [] path = "fallback" -> [debug EXCEPT !.usedDepthFallback = TRUE]
      [] OTHER -> [debug EXCEPT !.usedClassic = TRUE]

\* The drawing of one eye once its image is acquired, waited for and current.
drawEye(s, eye) ==
    IF ~s.x.frameReady_ THEN s
    ELSE LET path == renderPath(s.x, eye)
         IN [x |-> IF eye = 0
                   THEN [s.x EXCEPT !.renderDebugState_ = markPath(@, path)]
                   ELSE s.x,
             c |-> [s.c EXCEPT !.eyePath[eye] = path,
                               !.drawn[eye] = IF path = "layer" THEN s.x.eyeLayers_[eye]
                                              ELSE <<>>,
                               !.quad[eye] = IF path # "classic" THEN "none"
                                             ELSE IF s.x.worldAnchoredEnabled_
                                             THEN "anchored" ELSE "screen"]]

\* One iteration of the per-eye loop.  outcome says how far the runtime lets
\* it get: "acquireFail", "waitFail", "noContext" (makeCurrent fails) or "ok".
EyeOutcomes == {"acquireFail", "waitFail", "noContext", "ok"}

renderEye(s, eye, outcome) ==
    LET entered == [s EXCEPT !.c.eyeOutcome[eye] = outcome] IN
    IF outcome = "acquireFail" THEN recordFailure(entered, "xrAcquireSwapchainImage")
    ELSE LET got == [entered EXCEPT !.c.acquired = @ \cup {eye}] IN
         IF outcome = "waitFail" THEN recordFailure(got, "xrWaitSwapchainImage")
         ELSE LET done == IF outcome = "ok" THEN drawEye(got, eye) ELSE got
              IN [done EXCEPT !.c.released = @ \cup {eye}]

\* A variant of renderEyes that leaves the loop at the first eye whose image
\* cannot be acquired or waited for.
renderEyesUntilFailure(s, outcomes) ==
    LET first == renderEye(s, 0, outcomes[0])
    IN IF outcomes[0] \in {"acquireFail", "waitFail"} THEN first
       ELSE renderEye(first, 1, outcomes[1])

\* The per-eye loop: both eyes in turn, a failing eye going on to the next
\* by 'continue'.
renderEyes(s, outcomes) == renderEye(renderEye(s, 0, outcomes[0]), 1, outcomes[1])

\* xrEndFrame and the return value.
endFrame(s, endOk) ==
    LET t == [s EXCEPT !.c.frameEnded = TRUE] IN
    IF ~endOk THEN [recordFailure(t, "xrEndFrame") EXCEPT !.c.ret = FALSE]
    ELSE [t EXCEPT !.c.ret = TRUE]

\* What the OpenXR runtime answers during one renderFrame: the result of each
\* call it reaches, and the head position xrLocateViews reports.
AllSucceed ==
    [waitFrame |-> TRUE, beginFrame |-> TRUE, shouldRender |-> TRUE,
     locateViews |-> TRUE, eye |-> [e \in EyeIndices |-> "ok"],
     endFrame |-> TRUE, head |-> ZeroVector]

\* Every combination of failures (answers of calls that are not reached are
\* left at their defaults).
FailureEnvs ==
    {[AllSucceed EXCEPT !.waitFrame = FALSE], [AllSucceed EXCEPT !.beginFrame = FALSE]}
    \cup {[AllSucceed EXCEPT !.shouldRender = FALSE, !.endFrame = e] : e \in BOOLEAN}
    \cup {[AllSucceed EXCEPT !.locateViews = FALSE, !.endFrame = e] : e \in BOOLEAN}
    \cup {[AllSucceed EXCEPT !.eye = o, !.endFrame = e] :
             o \in [EyeIndices -> EyeOutcomes], e \in BOOLEAN}

\* Frames whose per-eye steps may fail but that are always ended.
EyeEnvs ==
    {[AllSucceed EXCEPT !.shouldRender = FALSE]}
    \cup {[AllSucceed EXCEPT !.eye = o] : o \in [EyeIndices -> EyeOutcomes]}

\* Frames with a moving head; views may fail to locate.
HeadEnvs ==
    {[AllSucceed EXCEPT !.shouldRender = FALSE], [AllSucceed EXCEPT !.locateViews = FALSE]}
    \cup {[AllSucceed EXCEPT !.head = h] : h \in HeadPositions}

\* renderFrame(): result [x, c] with c.ret the returned value.
renderFrame(x, events, beginOk, env) ==
    LET start == [CallIdle EXCEPT !.op = "renderFrame"] IN
    IF ~x.initialized_ THEN [x |-> x, c |-> start]
    ELSE
    LET polled == pollEvents(x, events, beginOk)
        beginFailed == ~beginOk /\ \E i \in 1..Len(events) : events[i] = "READY"
        c0 == [start EXCEPT !.sessionBegan = SessionBegan(x, events, beginOk),
                            !.exitPolled = polled.exitRequested_,
                            !.failed = IF beginFailed THEN {"xrBeginSession"} ELSE {},
                            !.errors = IF beginFailed THEN <<"xrBeginSession failed">>
                                       ELSE <<>>]
    IN
    IF ~polled.sessionRunning_
    THEN [x |-> [polled EXCEPT !.renderDebugState_.xrActive = FALSE], c |-> c0]
    ELSE
    LET reset == [polled EXCEPT !.renderDebugState_ =
                      [DebugInit EXCEPT !.xrActive = TRUE]]
        s0 == [x |-> reset, c |-> c0]
    IN
    IF ~env.waitFrame THEN recordFailure(s0, "xrWaitFrame")
    ELSE IF ~env.beginFrame THEN recordFailure(s0, "xrBeginFrame")
    ELSE IF ~env.shouldRender THEN endFrame(s0, env.endFrame)
    ELSE IF ~env.locateViews
    THEN endFrame(recordFailure(s0, "xrLocateViews"), env.endFrame)
    ELSE
    LET anchored == captureHeadOrigin(s0.x, env.head)
        s1 == [x |-> anchored,
               c |-> [s0.c EXCEPT !.located = TRUE, !.head = env.head,
                                  !.worldAnchor = anchored.headOrigin_]]
    IN endFrame(renderEyes(s1, env.eye), env.endFrame)

(***************************************************************************)
(* Mode setters                                                            *)
(***************************************************************************)
setDepthMetadataEnabled(x, enabled) ==
    LET recapture == IF enabled /\ ~x.depthMetadataEnabled_
                     THEN [x EXCEPT !.headOriginSet_ = FALSE] ELSE x
    IN [recapture EXCEPT !.depthMetadataEnabled_ = enabled]

\* A variant of setWorldAnchoredEnabled that asks for a new capture on every
\* call with true.
setWorldAnchoredEnabledAlwaysRecapturing(x, enabled) ==
    LET recapture == IF enabled THEN [x EXCEPT !.headOriginSet_ = FALSE] ELSE x
    IN [recapture EXCEPT !.worldAnchoredEnabled_ = enabled]

setWorldAnchoredEnabled(x, enabled) ==
    LET recapture == IF enabled /\ ~x.worldAnchoredEnabled_
                     THEN [x EXCEPT !.headOriginSet_ = FALSE] ELSE x
    IN [recapture EXCEPT !.worldAnchoredEnabled_ = enabled]

resetWorldAnchor(x) == [x EXCEPT !.headOriginSet_ = FALSE]

setOverlayVisible(x, visible) == [x EXCEPT !.overlayVisible_ = visible]

\* A variant of setPresentationConfig that stores its arguments as given.
setPresentationConfigUnclamped(x, screenScale, stereoConvergence) ==
    [x EXCEPT !.screenScale_ = screenScale, !.stereoConvergence_ = stereoConvergence]

setPresentationConfig(x, screenScale, stereoConvergence) ==
    [x EXCEPT !.screenScale_ = Clamp(screenScale, kMinScreenScale, kMaxScreenScale),
              !.stereoConvergence_ =
                  Clamp(stereoConvergence, kMinStereoConvergence, kMaxStereoConvergence)]

\* A variant of setWalkthroughOffset that stores its arguments as given.
setWalkthroughOffsetUnclamped(x, offsetX, offsetY, offsetZ) ==
    [x EXCEPT !.walkThroughOffset_ = <<offsetX, offsetY, offsetZ>>]

setWalkthroughOffset(x, offsetX, offsetY, offsetZ) ==
    [x EXCEPT !.walkThroughOffset_ =
        <<Clamp(offsetX, -kWalkOffsetLimit, kWalkOffsetLimit),
          Clamp(offsetY, -kWalkOffsetLimit, kWalkOffsetLimit),
          Clamp(offsetZ, -kWalkOffsetLimit, kWalkOffsetLimit)>>]

setWalkthroughRotation(x, yaw, pitch) ==
    [x EXCEPT !.walkThroughYaw_ = yaw,
              !.walkThroughPitch_ = Clamp(pitch, -kWalkPitchLimit, kWalkPitchLimit)]

(***************************************************************************)
(* Inputs of the renderer specifications                                   *)
(***************************************************************************)
\* Colour frames: side-by-side at eye size, a tall frame (not side-by-side),
\* and a rejected size.
SizeSideBySide == <<2 * kVipEyeWidth, kVipEyeHeight>>
SizeTall == <<2 * kVipEyeWidth, kVipEyeWidth + kVipEyeHeight>>
FrameSizes == {SizeSideBySide, SizeTall, <<0, 0>>}

\* A pixel of metadata: <<world id, disparity>>.  Row y of an upload is the row
\* pattern rotated by y places.
MetadataOf(row, width, height) ==
    LET pixel(i) == row[((((i - 1) % width) + ((i - 1) \div width)) % width) + 1]
    IN [disparityPresent |-> TRUE, worldIdsPresent |-> TRUE,
        width |-> width, height |-> height,
        worldIds |-> [i \in 1..(width * height) |-> pixel(i)[1]],
        disparity |-> [i \in 1..(width * height) |-> pixel(i)[2]]]

NullMetadata ==
    [disparityPresent |-> FALSE, worldIdsPresent |-> FALSE, width |-> 0, height |-> 0,
     worldIds |-> <<>>, disparity |-> <<>>]

\* Uploads used with the full renderer: layers in both eyes, layers in the right
\* eye only (the left eye holds ids >= 32), at both frame sizes, and a null upload.
RowBothEyes(width) == [k \in 1..width |-> IF k <= kVipEyeWidth THEN <<0, -128>> ELSE <<31, 0>>]
RowRightEyeOnly(width) == [k \in 1..width |-> IF k <= kVipEyeWidth THEN <<32, 127>> ELSE <<0, 0>>]

XrMetadata ==
    {NullMetadata}
    \cup {MetadataOf(RowBothEyes(sz[1]), sz[1], sz[2]) : sz \in {SizeSideBySide, SizeTall}}
    \cup {MetadataOf(RowRightEyeOnly(sz[1]), sz[1], sz[2]) : sz \in {SizeSideBySide}}

(***************************************************************************)
(* App (native_app.cpp): state                                             *)
(***************************************************************************)
\* Program constants; scale and convergence in units of 0.00001.
kDefaultScreenScale == 62000
kDefaultStereoConvergence == -4000
kScreenScaleStep == 3000
kStereoConvergenceStep == 400
\* The walkthrough steps and the stick dead zone, in thousandths: a stick
\* value (thousandths) times a step gives millionths.
kWalkOffsetStep == 22
kWalkYawStep == 45
kWalkPitchStep == 35
kWalkStickDeadzone == 180
kRomReloadFrames == MaxReloadFrames
kAudioChunkFrames == MaxChunkFrames
audioSampleRate == 44100

\* The buttons of VbInputState; an input state is the set of buttons held.
Buttons == {"left", "right", "up", "down", "a", "b", "l", "r", "start", "select"}

\* app_->window as the platform hands it over: none (nullptr), a window on
\* which the flat renderer's EGL context and surface can be created ("ok"), and
\* one on which they cannot ("noEgl").
Windows == {"none", "ok", "noEgl"}

\* A controller state (XrStereoRenderer::ControllerState) is the set of its
\* fields that are true: the buttons, leftThumbClick, rightThumbClick, leftGrip
\* and rightGrip.  Its sticks are a record of four axes, in thousandths.
NeutralSticks == [leftStickX |-> 0, leftStickY |-> 0, rightStickX |-> 0, rightStickY |-> 0]

\* What std::sin(walkYaw_) and std::cos(walkYaw_) return, in thousandths, when
\* walkYaw_ is not 0: a point of the unit circle the environment picks.
HeadingAhead == [sin |-> 0, cos |-> 1000]

\* AudioPlayer with its default member initializers; stream_ says the
\* pointer is not nullptr.
AudioPlayerConstructed == [stream_ |-> FALSE, sampleRate_ |-> 0, channelCount_ |-> 0]

AppConstructed ==
    [running_ |-> FALSE, resumed_ |-> FALSE, reloadCounter_ |-> 0,
     pickerRequested_ |-> FALSE, autoPickerLaunchedForMissingRom_ |-> FALSE,
     autoPickerRestoreInfoWindow_ |-> FALSE,
     prevXrLeftThumbClick_ |-> FALSE, prevXrRightThumbClick_ |-> FALSE,
     showInfoWindow_ |-> TRUE, infoToggleHeld_ |-> FALSE,
     presentationLoaded_ |-> FALSE,
     screenScale_ |-> kDefaultScreenScale,
     stereoConvergence_ |-> kDefaultStereoConvergence,
     adjustUpHeld_ |-> FALSE, adjustDownHeld_ |-> FALSE, adjustLeftHeld_ |-> FALSE,
     adjustRightHeld_ |-> FALSE, adjustResetHeld_ |-> FALSE,
     depthToggleHeld_ |-> FALSE, viewMode_ |-> "Anchored",
     input_ |-> {},
     coreInitialized |-> FALSE, romLoaded |-> FALSE, loadedRom |-> <<>>,
     window |-> "none", rendererInitialized |-> FALSE,
     walkOffsetX_ |-> 0, walkOffsetY_ |-> 0, walkOffsetZ_ |-> 0,
     walkYaw_ |-> 0, walkPitch_ |-> 0, walkResetHeld_ |-> FALSE,
     audioPlayer_ |-> AudioPlayerConstructed, audioQueue_ |-> <<>>]

\* gPendingRom as constructed; a payload is bytes and a name, both sequences.
PendingEmpty == [bytes |-> <<>>, name |-> <<>>, ready |-> FALSE]

\* The toggles with an edge detector, each with the button that drives it:
\* the info window by the XR right thumb click ("infoThumb") and by the
\* THUMBR/F1 key ("infoKey"), the ROM picker by the XR left thumb click
\* ("pickerThumb"), the view mode by B while the info window is shown
\* ("viewModeB"), and the latter sampled only in the ticks that run the emulator
\* ("viewModeBPlaying").
Toggles == {"infoThumb", "infoKey", "pickerThumb", "viewModeB", "viewModeBPlaying"}

\* Observation of the ticks.  ticks counts the ticks run; sampled says the
\* last tick got as far as reading the controller, emulated that it ran the
\* emulator.  Of the last tick that ran the emulator: infoShown is
\* showInfoWindow_ when applyCalibrationInput read it, physical is input_ and
\* xrButtons the buttons of the controller state as merged, merged the merged input,
\* coreInput the argument of setInputState, adjusted the calibration
\* adjustments applied.  Of the last tick that got as far as presenting:
\* frame is the size of the frame it had to present (<<>>: none), xrRendered
\* what renderFrame returned (FALSE when it was not called), flatFrame the size
\* of the frame the flat renderer presented (<<>>: none).  held[t] counts the consecutive samples in which
\* toggle t's button has been held (0: not held) and fires[t] the times the
\* toggle fired during them (both stop counting at MaxCount).  loadedFrom is
\* the settings file as loadPresentationSettings found it (<<>>: not loaded).
\* Of the last tick that ran the emulator, too: grip says a grip was held,
\* navInput is the input state applyDepthWalkthroughControls was given, and
\* walkReset says it called resetWalkthroughHome().  reloadTried says the
\* last tick called tryLoadDefaultRom(), and sinceTried counts the ticks that
\* found no ROM loaded since the last one that did (-1: none has yet).
\* Of the pumpAudio() call of the last tick: called says it was made, started
\* what ensureStarted returned, closed and opened whether it closed a stream
\* and opened one, before the audio queue as the call found it, drained the
\* chunks drainAudioFrames returned and written those handed to writeFrames,
\* both in call order.  audioProduced counts the frames the emulator has
\* queued so far; a frame is known by its number.
AudioIdle ==
    [called |-> FALSE, started |-> FALSE, closed |-> FALSE, opened |-> FALSE,
     before |-> <<>>, drained |-> <<>>, written |-> <<>>]

\* The ROM pickers on the platform's side, observed by the actions of
\* SpecPicker: launched counts the pickers opened (a picker is known by its
\* number), open holds those the user has not left yet, romFrom and
\* signalFrom are the picker whose ROM is in gPendingRom and whose dismissal
\* is in gPickerSignal (0: none), owner is the picker this App opened and
\* whose result no tick has consumed (0: none), autoCount counts the pickers
\* tryLoadDefaultRom has opened since this App was constructed or last
\* loaded a ROM from a picker.
PickersIdle ==
    [launched |-> 0, open |-> {}, romFrom |-> 0, signalFrom |-> 0,
     owner |-> 0, autoCount |-> 0]

ObsIdle ==
    [ticks |-> 0, sampled |-> FALSE, emulated |-> FALSE, infoShown |-> FALSE,
     physical |-> {}, xrButtons |-> {},
     merged |-> {}, coreInput |-> {}, adjusted |-> {},
     frame |-> <<>>, xrRendered |-> FALSE, flatFrame |-> <<>>,
     loadedFrom |-> <<>>,
     grip |-> FALSE, navInput |-> {}, walkReset |-> FALSE,
     reloadTried |-> FALSE, sinceTried |-> -1,
     audio |-> AudioIdle, audioProduced |-> 0,
     pickers |-> PickersIdle,
     held |-> [t \in Toggles |-> 0],
     fires |-> [t \in Toggles |-> 0]]

\* The two threads that share gPendingRom, outside their critical sections:
\* mutex is the owner of gPendingRom.mutex; platform holds the position and
\* the locals (bytes, name) of nativeOnRomSelected, tick those of the tick's
\* TakePendingRom call (pickedRom, pickedName, the value returned).  Observed:
\* delivered counts the payloads handed over, latest is the payload of the
\* last delivery completed, taken lists, for each take that returned true,
\* what it got and what latest was.
NoPayload == [bytes |-> <<>>, name |-> <<>>]
ThreadsIdle ==
    [mutex |-> "free",
     platform |-> [pc |-> "idle", bytes |-> <<>>, name |-> <<>>],
     tick |-> [pc |-> "idle", outBytes |-> <<>>, outName |-> <<>>, ret |-> FALSE],
     delivered |-> 0, latest |-> NoPayload, taken |-> <<>>]

Count(n) == IF n < MaxCount THEN n + 1 ELSE MaxCount

(***************************************************************************)
(* App: the pending-ROM mailbox and the picker signal, as whole calls      *)
(***************************************************************************)
\* TakePendingRom(outBytes, outName): [p, ret, bytes, name].
TakePendingRom(p) ==
    IF ~p.ready \/ p.bytes = <<>>
    THEN [p |-> p, ret |-> FALSE, bytes |-> <<>>, name |-> <<>>]
    ELSE [p |-> PendingEmpty, ret |-> TRUE, bytes |-> p.bytes, name |-> p.name]

\* TakePickerDismissedSignal(): [signal, ret].
TakePickerDismissedSignal(dismissed) ==
    [signal |-> FALSE, ret |-> dismissed]

(***************************************************************************)
(* App: toggles, picker, ROM loading                                       *)
(***************************************************************************)
toggleInfoWindow(a) == [a EXCEPT !.showInfoWindow_ = ~@]

\* A variant of handleInfoToggleInput with no held flag: every DOWN event toggles.
handleInfoToggleInputEveryEvent(a, pressed) ==
    IF pressed THEN toggleInfoWindow(a) ELSE a

handleInfoToggleInput(a, pressed) ==
    LET toggled == IF pressed /\ ~a.infoToggleHeld_ THEN toggleInfoWindow(a) ELSE a
    IN [toggled EXCEPT !.infoToggleHeld_ = pressed]

isWorldAnchoredMode(a) == a.viewMode_ = "Anchored"

\* xrRenderer_.setWalkthroughOffset(walkOffsetX_, walkOffsetY_, walkOffsetZ_);
\* xrRenderer_.setWalkthroughRotation(walkYaw_, walkPitch_).
pushWalkthrough(a, x) ==
    setWalkthroughRotation(
        setWalkthroughOffset(x, a.walkOffsetX_, a.walkOffsetY_, a.walkOffsetZ_),
        a.walkYaw_, a.walkPitch_)

\* A variant of applyPresentationConfig with depthEnabled = true.
applyPresentationConfigDepthOn(a, x) ==
    IF ~x.initialized_ THEN x
    ELSE LET effectiveConvergence ==
                 IF isWorldAnchoredMode(a) THEN 0 ELSE a.stereoConvergence_
         IN pushWalkthrough(a,
                setOverlayVisible(
                    setWorldAnchoredEnabled(
                        setDepthMetadataEnabled(
                            setPresentationConfig(x, a.screenScale_, effectiveConvergence),
                            TRUE),
                        isWorldAnchoredMode(a)),
                    a.showInfoWindow_))

\* applyPresentationConfig(): the renderer after the calls it makes.
applyPresentationConfig(a, x) ==
    IF ~x.initialized_ THEN x
    ELSE LET effectiveConvergence ==
                 IF isWorldAnchoredMode(a) THEN 0 ELSE a.stereoConvergence_
         IN pushWalkthrough(a,
                setOverlayVisible(
                    setWorldAnchoredEnabled(
                        setDepthMetadataEnabled(
                            setPresentationConfig(x, a.screenScale_, effectiveConvergence),
                            FALSE),
                        isWorldAnchoredMode(a)),
                    a.showInfoWindow_))

\* resetWalkthroughHome(): [a, x].
resetWalkthroughHome(a, x) ==
    LET home == [a EXCEPT !.walkOffsetX_ = 0, !.walkOffsetY_ = 0, !.walkOffsetZ_ = 0,
                          !.walkYaw_ = 0, !.walkPitch_ = 0, !.walkResetHeld_ = FALSE]
    IN [a |-> home, x |-> IF x.initialized_ THEN pushWalkthrough(home, x) ELSE x]

\* toggleDepthViewMode(): [a, x].
toggleDepthViewMode(a, x) ==
    LET switched == [a EXCEPT !.viewMode_ = IF @ = "Classic" THEN "Anchored" ELSE "Classic"]
    IN [a |-> switched, x |-> applyPresentationConfig(switched, x)]

\* requestRomPicker(autoLaunchIfInfoShown); launchOk says whether the Java
\* picker could be opened.
requestRomPicker(a, autoLaunchIfInfoShown, launchOk) ==
    IF a.showInfoWindow_ /\ ~autoLaunchIfInfoShown THEN a
    ELSE IF a.pickerRequested_ THEN a
    ELSE LET restoreInfoAfterPicker == autoLaunchIfInfoShown /\ a.showInfoWindow_
             hidden == IF restoreInfoAfterPicker
                       THEN [a EXCEPT !.showInfoWindow_ = FALSE,
                                      !.autoPickerRestoreInfoWindow_ = TRUE]
                       ELSE a
         IN IF launchOk
            THEN [hidden EXCEPT !.pickerRequested_ = TRUE,
                                !.autoPickerLaunchedForMissingRom_ =
                                    IF autoLaunchIfInfoShown THEN TRUE ELSE @]
            ELSE IF restoreInfoAfterPicker
                 THEN [hidden EXCEPT !.showInfoWindow_ = TRUE,
                                     !.autoPickerRestoreInfoWindow_ = FALSE]
                 ELSE hidden

\* LibretroVbCore::loadRomFromFile over the candidate paths: the running ROM
\* is unloaded first; found says whether a candidate loads.
loadRomFromFile(a, found) ==
    IF ~a.coreInitialized THEN a
    ELSE IF found THEN [a EXCEPT !.romLoaded = TRUE, !.loadedRom = <<"default">>]
    ELSE [a EXCEPT !.romLoaded = FALSE, !.loadedRom = <<>>]

\* A variant of tryLoadDefaultRom that does not test
\* autoPickerLaunchedForMissingRom_.
tryLoadDefaultRomUnflagged(a, found, launchOk) ==
    IF ~a.coreInitialized THEN a
    ELSE LET tried == loadRomFromFile(a, found)
         IN IF found THEN tried
            ELSE IF ~tried.pickerRequested_
                 THEN requestRomPicker(tried, TRUE, launchOk)
                 ELSE tried

\* tryLoadDefaultRom()
tryLoadDefaultRom(a, found, launchOk) ==
    IF ~a.coreInitialized THEN a
    ELSE LET tried == loadRomFromFile(a, found)
         IN IF found THEN tried
            ELSE IF ~tried.pickerRequested_ /\ ~tried.autoPickerLaunchedForMissingRom_
                 THEN requestRomPicker(tried, TRUE, launchOk)
                 ELSE tried

\* LibretroVbCore::loadRomFromBytes(data, size, nameHint): on success the
\* payload is the loaded ROM; on failure the previous ROM is kept or unloaded
\* (keptOnFailure).
loadRomFromBytes(a, bytes, name, ok, keptOnFailure) ==
    IF a.coreInitialized /\ ok
    THEN [a EXCEPT !.romLoaded = TRUE, !.loadedRom = <<bytes, name>>]
    ELSE IF keptOnFailure THEN a
    ELSE [a EXCEPT !.romLoaded = FALSE, !.loadedRom = <<>>]

\* The text of the settings file is a sequence of whitespace-separated
\* tokens: the file that is absent, cannot be opened or is empty is <<>>.  A
\* token is a decimal numeral, kept by its value in units of 0.00001, or a
\* word that starts no numeral.
Numeral(value) == [kind |-> "numeral", value |-> value]
Word == [kind |-> "word"]

\* A file of three numerals, the third a whole number.
SettingsText(scale, convergence, mode) ==
    <<Numeral(scale), Numeral(convergence), Numeral(mode * 100000)>>

\* static_cast<int>(viewMode_) of enum class ViewMode { Classic = 0, Anchored = 2 }
viewModeInt(mode) == IF mode = "Classic" THEN 0 ELSE 2

\* in >> float: the extraction fails at the end of the text and on a word.
floatParses(file, i) == i <= Len(file) /\ file[i].kind = "numeral"

\* in >> int into a variable holding before: at the end of the text the
\* stream's sentry fails and the variable is left alone; on a word the
\* extraction fails and stores 0 (std::num_get, C++11 and later); on a
\* numeral it stores the digits before the decimal point.
extractInt(file, i, before) ==
    IF i > Len(file) THEN before
    ELSE IF file[i].kind = "word" THEN 0
    ELSE IF file[i].value < 0 THEN -((-file[i].value) \div 100000)
    ELSE file[i].value \div 100000

\* What operator<< writes for a float under std::fixed and
\* std::setprecision(4): the nearest numeral of four decimals.  A value
\* halfway between two of them goes by the binary float behind it, which lies
\* on either side: halfUp says on which.
fixed4Truncating(value, halfUp) ==
    IF value < 0 THEN -(10 * ((-value) \div 10)) ELSE 10 * (value \div 10)

fixed4(value, halfUp) ==
    LET magnitude == Abs(value)
        up == magnitude % 10 > 5 \/ (magnitude % 10 = 5 /\ halfUp)
        rounded == 10 * (IF up THEN (magnitude \div 10) + 1 ELSE magnitude \div 10)
    IN IF value < 0 THEN -rounded ELSE rounded

\* The settings a savePresentationSettings() call reads from the App.
presentationOf(a) ==
    [scale |-> a.screenScale_, convergence |-> a.stereoConvergence_, mode |-> a.viewMode_]

\* The settings file: its text, and the settings it was saved from (<<>>
\* when the app did not write it).
NoSettingsFile == [text |-> <<>>, from |-> <<>>]

\* savePresentationSettings() for the settings p: the file it leaves.  ok
\* says whether the file could be opened for writing.
savePresentationSettings(file, p, ok, halfUp) ==
    IF ~ok THEN file
    ELSE [text |-> <<Numeral(fixed4(p.scale, halfUp)),
                     Numeral(fixed4(p.convergence, halfUp)),
                     Numeral(viewModeInt(p.mode) * 100000)>>,
          from |-> p]

\* The file after the calls of savePresentationSettings() listed in saved,
\* the i-th of them opening the file or not as ok[i] says.
RECURSIVE saveAll(_, _, _, _)
saveAll(file, saved, ok, halfUp) ==
    IF saved = <<>> THEN file
    ELSE saveAll(savePresentationSettings(file, Head(saved), Head(ok), halfUp),
                 Tail(saved), Tail(ok), halfUp)

\* loadPresentationSettings(): file is the text of the settings file.
loadPresentationSettings(a, file) ==
    LET defaults == [a EXCEPT !.screenScale_ = kDefaultScreenScale,
                              !.stereoConvergence_ = kDefaultStereoConvergence,
                              !.viewMode_ = "Anchored"]
        loadedViewMode == extractInt(file, 3, viewModeInt(defaults.viewMode_))
    IN IF ~floatParses(file, 1) \/ ~floatParses(file, 2) THEN defaults
       ELSE [a EXCEPT !.screenScale_ =
                          Clamp(file[1].value, kMinScreenScale, kMaxScreenScale),
                      !.stereoConvergence_ =
                          Clamp(file[2].value, kMinStereoConvergence, kMaxStereoConvergence),
                      !.viewMode_ = IF loadedViewMode <= 0 THEN "Classic" ELSE "Anchored"]

(***************************************************************************)
(* App: calibration and navigation layers                                  *)
(***************************************************************************)
resetCalibrationEdgeState(a) ==
    [a EXCEPT !.adjustUpHeld_ = FALSE, !.adjustDownHeld_ = FALSE,
              !.adjustLeftHeld_ = FALSE, !.adjustRightHeld_ = FALSE,
              !.adjustResetHeld_ = FALSE]

\* The five adjustments of applyCalibrationInput, in program order; each
\* acts when its button is held and its held flag is clear.
\* A variant of adjustUp that adds the step without the clamp.
adjustUpUnclamped(a, input) ==
    IF "up" \in input /\ ~a.adjustUpHeld_
    THEN [a EXCEPT !.screenScale_ = @ + kScreenScaleStep]
    ELSE a

adjustUp(a, input) ==
    IF "up" \in input /\ ~a.adjustUpHeld_
    THEN [a EXCEPT !.screenScale_ =
              Clamp(@ + kScreenScaleStep, kMinScreenScale, kMaxScreenScale)]
    ELSE a

adjustDown(a, input) ==
    IF "down" \in input /\ ~a.adjustDownHeld_
    THEN [a EXCEPT !.screenScale_ =
              Clamp(@ - kScreenScaleStep, kMinScreenScale, kMaxScreenScale)]
    ELSE a

adjustRight(a, input) ==
    IF "right" \in input /\ ~a.adjustRightHeld_
    THEN [a EXCEPT !.stereoConvergence_ =
              Clamp(@ + kStereoConvergenceStep, kMinStereoConvergence, kMaxStereoConvergence)]
    ELSE a

adjustLeft(a, input) ==
    IF "left" \in input /\ ~a.adjustLeftHeld_
    THEN [a EXCEPT !.stereoConvergence_ =
              Clamp(@ - kStereoConvergenceStep, kMinStereoConvergence, kMaxStereoConvergence)]
    ELSE a

adjustReset(a, input) ==
    IF "a" \in input /\ ~a.adjustResetHeld_
    THEN [a EXCEPT !.screenScale_ = kDefaultScreenScale,
                   !.stereoConvergence_ = kDefaultStereoConvergence]
    ELSE a

\* Which adjustments act (the conditions that set 'changed').
adjustmentsApplied(a, input) ==
    {d \in {"up", "down", "left", "right", "a"} :
        /\ d \in input
        /\ ~(CASE d = "up" -> a.adjustUpHeld_
               [] d = "down" -> a.adjustDownHeld_
               [] d = "left" -> a.adjustLeftHeld_
               [] d = "right" -> a.adjustRightHeld_
               [] OTHER -> a.adjustResetHeld_)}

\* A variant of consumeCalibrationControls that lets the controls pass through.
passCalibrationControls(input) == input

\* The end of applyCalibrationInput: the calibration controls are consumed
\* while both shoulders are held.
consumeCalibrationControls(input) ==
    input \ {"left", "right", "up", "down", "a", "l", "r", "b"}

\* applyCalibrationInput(inputState): [a, x, input, adjusted, toggled, saved],
\* saved listing the settings of its savePresentationSettings() calls, the
\* one in toggleDepthViewMode() first.
applyCalibrationInput(a, x, inputState) ==
    LET toggled == a.showInfoWindow_ /\ "b" \in inputState /\ ~a.depthToggleHeld_
        switched == IF toggled THEN toggleDepthViewMode(a, x) ELSE [a |-> a, x |-> x]
        savedByToggle == IF toggled THEN <<presentationOf(switched.a)>> ELSE <<>>
        a1 == [switched.a EXCEPT !.depthToggleHeld_ =
                   a.showInfoWindow_ /\ "b" \in inputState]
        input1 == IF a.showInfoWindow_ THEN inputState \ {"b"} ELSE inputState
        modifierHeld == "l" \in input1 /\ "r" \in input1
    IN IF ~a.showInfoWindow_ \/ ~modifierHeld
       THEN [a |-> resetCalibrationEdgeState(a1), x |-> switched.x, input |-> input1,
             adjusted |-> {}, toggled |-> toggled, saved |-> savedByToggle]
       ELSE LET adjusted == adjustmentsApplied(a1, input1)
                a2 == adjustReset(adjustLeft(adjustRight(adjustDown(adjustUp(a1, input1),
                          input1), input1), input1), input1)
                a3 == [a2 EXCEPT !.adjustUpHeld_ = "up" \in input1,
                                 !.adjustDownHeld_ = "down" \in input1,
                                 !.adjustLeftHeld_ = "left" \in input1,
                                 !.adjustRightHeld_ = "right" \in input1,
                                 !.adjustResetHeld_ = "a" \in input1]
            IN [a |-> a3,
                x |-> IF adjusted # {} THEN applyPresentationConfig(a3, switched.x)
                      ELSE switched.x,
                input |-> consumeCalibrationControls(input1),
                adjusted |-> adjusted, toggled |-> toggled,
                saved |-> IF adjusted # {} THEN Append(savedByToggle, presentationOf(a3))
                          ELSE savedByToggle]

\* The applyAxis lambda: a stick value inside the dead zone counts as 0.
applyAxis(value) ==
    IF value > kWalkStickDeadzone \/ value < -kWalkStickDeadzone THEN value ELSE 0

\* applyDepthWalkthroughControls(xrState, inputState), the controller state
\* being xrState (buttons and grips) and sticks; heading is what sin and cos
\* return for a walkYaw_ other than 0.  The products of the sampled stick and
\* heading values are whole thousandths, so the divisions are exact.
\* Result: [a, x, input].
\* A variant of walkthroughActive that does not look at the view mode.
walkthroughActiveInAnyMode(a, xrState) == {"leftGrip", "rightGrip"} \cap xrState # {}

\* The navigation layer is on: isWorldAnchoredMode() && gripHeld.
walkthroughActive(a, xrState) ==
    isWorldAnchoredMode(a) /\ {"leftGrip", "rightGrip"} \cap xrState # {}

\* A variant of walkResetEdge that resets for as long as A is held.
walkResetLevel(a, xrState) == "a" \in xrState

\* xrState.a && !walkResetHeld_
walkResetEdge(a, xrState) == "a" \in xrState /\ ~a.walkResetHeld_

\* A variant of consumeWalkthroughControls that lets A through.
consumeWalkthroughControlsButA(inputState) ==
    inputState \ {"left", "right", "up", "down", "l", "r"}

\* The end of applyDepthWalkthroughControls: the navigation controls are
\* cleared in the state that goes to the emulator.
consumeWalkthroughControls(inputState) ==
    inputState \ {"left", "right", "up", "down", "a", "l", "r"}

\* Result: [a, x, input, reset], reset saying whether resetWalkthroughHome()
\* was called.
applyDepthWalkthroughControls(a, x, xrState, sticks, heading, inputState) ==
    IF ~x.initialized_ THEN [a |-> a, x |-> x, input |-> inputState, reset |-> FALSE]
    ELSE IF ~walkthroughActive(a, xrState)
    THEN LET released == [a EXCEPT !.walkResetHeld_ = FALSE]
         IN [a |-> released, x |-> pushWalkthrough(released, x), input |-> inputState,
             reset |-> FALSE]
    ELSE
    LET strafe == applyAxis(sticks.leftStickX)
        forward == applyAxis(sticks.leftStickY)
        turnYaw == applyAxis(sticks.rightStickX)
        turnPitch == applyAxis(sticks.rightStickY)
        rise == (IF "r" \in xrState THEN 1000 ELSE 0) - (IF "l" \in xrState THEN 1000 ELSE 0)
        yaw == a.walkYaw_ + (turnYaw * kWalkYawStep)
        pitch == Clamp(a.walkPitch_ + (turnPitch * kWalkPitchStep),
                       -kWalkPitchLimit, kWalkPitchLimit)
        sinYaw == IF yaw = 0 THEN 0 ELSE heading.sin
        cosYaw == IF yaw = 0 THEN 1000 ELSE heading.cos
        deltaX == ((cosYaw * strafe) + (sinYaw * forward)) \div 1000
        deltaZ == ((sinYaw * strafe) - (cosYaw * forward)) \div 1000
        moved == [a EXCEPT
                    !.walkYaw_ = yaw,
                    !.walkPitch_ = pitch,
                    !.walkOffsetX_ = Clamp(@ + (deltaX * kWalkOffsetStep),
                                           -kWalkOffsetLimit, kWalkOffsetLimit),
                    !.walkOffsetY_ = Clamp(@ + (rise * kWalkOffsetStep),
                                           -kWalkOffsetLimit, kWalkOffsetLimit),
                    !.walkOffsetZ_ = Clamp(@ + (deltaZ * kWalkOffsetStep),
                                           -kWalkOffsetLimit, kWalkOffsetLimit)]
        reset == IF walkResetEdge(a, xrState)
                 THEN resetWalkthroughHome(moved, x)
                 ELSE [a |-> moved, x |-> x]
        a1 == [reset.a EXCEPT !.walkResetHeld_ = "a" \in xrState]
    IN [a |-> a1, x |-> pushWalkthrough(a1, reset.x),
        input |-> consumeWalkthroughControls(inputState),
        reset |-> walkResetEdge(a, xrState)]

(***************************************************************************)
(* App: onCmd, onInput, tick                                               *)
(***************************************************************************)
\* The element of a one-element set: The({e : v \in {d}}) is e with v
\* standing for the value of d, worked out once.
The(S) == CHOOSE r \in S : TRUE

\* One sample of toggle t's button: pressed says whether it is held, fired
\* whether the toggle fired on this sample.
Sample(o, t, pressed, fired) ==
    The({LET before == IF s.held[t] = 0 THEN 0 ELSE s.fires[t]
         IN [s EXCEPT !.held[t] = IF pressed THEN Count(@) ELSE 0,
                      !.fires[t] = IF ~pressed THEN 0
                                   ELSE IF fired THEN Count(before) ELSE before]
         : s \in {o}})

\* The standby frame (kStandbyFrameWidth x kStandbyFrameHeight = 768 x 384, two
\* eye widths by one eye width) and the emulator's frame.
StandbySize == <<2 * kVipEyeWidth, kVipEyeWidth>>
GameFrameSize == <<2 * kVipEyeWidth, kVipEyeHeight>>

\* GlRenderer::initialize(window): whether the flat renderer is initialized
\* after it.
GlInitialize(window) == window = "ok"

\* onCmd(APP_CMD_INIT_WINDOW); in.settings is the settings file, in.xrFailedStep
\* the setup step of the XR renderer that fails (0: none), in.defaultRom
\* whether a default ROM file loads, in.launchOk whether a picker can open,
\* in.window the window the platform has put in app_->window.
\* Result: [a, x, c].
onInitWindow(a, x, in) ==
    LET a1 == [a EXCEPT !.coreInitialized = TRUE, !.window = in.window]
        a2 == IF ~a1.presentationLoaded_
              THEN [loadPresentationSettings(a1, in.settings) EXCEPT
                        !.presentationLoaded_ = TRUE]
              ELSE a1
        init == IF ~x.initialized_ THEN initialize(x, TRUE, in.xrFailedStep)
                ELSE [x |-> x, ret |-> TRUE]
        x1 == IF init.x.initialized_ THEN applyPresentationConfig(a2, init.x) ELSE init.x
        a3 == IF ~x1.initialized_ /\ ~a2.rendererInitialized /\ a2.window # "none"
              THEN [a2 EXCEPT !.rendererInitialized = GlInitialize(a2.window)]
              ELSE a2
    IN [a |-> tryLoadDefaultRom(a3, in.defaultRom, in.launchOk),
        x |-> x1,
        c |-> IF ~x.initialized_
              THEN [CallIdle EXCEPT !.op = "initialize", !.ret = init.ret]
              ELSE CallIdle]

\* onCmd(cmd) for the lifecycle commands (APP_CMD_DESTROY is not modelled).
\* TERM_WINDOW shuts the flat renderer down; the platform takes the window
\* back after the command.
onCmd(a, cmd) ==
    CASE cmd = "START" -> [a EXCEPT !.running_ = TRUE]
      [] cmd = "RESUME" -> [a EXCEPT !.resumed_ = TRUE]
      [] cmd = "PAUSE" -> [a EXCEPT !.resumed_ = FALSE]
      [] cmd = "STOP" -> [a EXCEPT !.running_ = FALSE]
      [] cmd = "TERM_WINDOW" -> [a EXCEPT !.rendererInitialized = FALSE,
                                          !.window = "none"]
      [] OTHER -> a

\* The key codes onInput maps to one button of input_ (one key per button; the
\* stick, hat and trigger sources that are OR-ed into the same buttons are not
\* modelled).
KeyButton ==
    [DPAD_LEFT |-> "left", DPAD_RIGHT |-> "right", DPAD_UP |-> "up", DPAD_DOWN |-> "down",
     BUTTON_A |-> "a", BUTTON_B |-> "b", BUTTON_L1 |-> "l", BUTTON_R1 |-> "r",
     BUTTON_START |-> "start", BUTTON_SELECT |-> "select"]

\* onInput for a key event (ACTION_DOWN: pressed, ACTION_UP: not pressed).
onInput(a, key, pressed, launchOk) ==
    IF key \in DOMAIN KeyButton
    THEN [a EXCEPT !.input_ = IF pressed THEN @ \cup {KeyButton[key]}
                              ELSE @ \ {KeyButton[key]}]
    ELSE IF key = "BUTTON_THUMBR" THEN handleInfoToggleInput(a, pressed)
    ELSE IF key = "BUTTON_THUMBL"
    THEN (IF pressed THEN requestRomPicker(a, FALSE, launchOk) ELSE a)
    ELSE a

\* A variant of mergeInput that does not take start from the controller.
mergeInputWithoutXrStart(input, xrState) ==
    {b \in Buttons : b \in input \/ (b \in xrState /\ b # "start")}

\* VbInputState mergedInput = input_; mergedInput.left = mergedInput.left ||
\* xrState.left; and so on for each of the ten buttons.
mergeInput(input, xrState) ==
    {b \in Buttons : b \in input \/ b \in xrState}

\* The picker results the tick consumes, take being what TakePendingRom
\* returned: [a, signal].
consumePicker(a, take, signal, in) ==
    LET restored(b) == IF b.autoPickerRestoreInfoWindow_
                       THEN [b EXCEPT !.showInfoWindow_ = TRUE,
                                      !.autoPickerRestoreInfoWindow_ = FALSE]
                       ELSE b
    IN IF take.ret
       THEN LET loaded == loadRomFromBytes(a, take.bytes, take.name, in.romLoadOk,
                                           in.keptOnFailure)
                ok == a.coreInitialized /\ in.romLoadOk
                cleared == IF ok THEN [loaded EXCEPT !.autoPickerLaunchedForMissingRom_ = FALSE]
                           ELSE loaded
            IN [a |-> restored([cleared EXCEPT !.pickerRequested_ = FALSE]),
                signal |-> signal]
       ELSE IF TakePickerDismissedSignal(signal).ret
       THEN [a |-> restored([a EXCEPT !.pickerRequested_ = FALSE]),
             signal |-> TakePickerDismissedSignal(signal).signal]
       ELSE [a |-> a, signal |-> signal]

\* The flat renderer's part of presenting a frame: renderer_.updateFrame and
\* renderer_.render() run when the XR renderer did not render and the flat
\* renderer is initialized.  Result: the size of the frame it presented, or <<>>.
flatFallback(a, xrRendered, size) ==
    IF ~xrRendered /\ a.rendererInitialized THEN size ELSE <<>>

\* Presenting a frame: through the XR renderer if it is initialized, else or
\* when its renderFrame returns false through the flat renderer.
\* Result: [x, c, flat].
present(a, x, size, in) ==
    LET viaXr == IF x.initialized_
                 THEN renderFrame(updateFrame(x, TRUE, size[1], size[2], in.eglOk),
                                  in.innerPoll.events, in.innerPoll.beginOk, in.env)
                 ELSE [x |-> x, c |-> CallIdle]
    IN [x |-> viaXr.x, c |-> viaXr.c,
        flat |-> flatFallback(a, x.initialized_ /\ viaXr.c.ret, size)]

(***************************************************************************)
(* AudioPlayer (audio_player.cpp) and App::pumpAudio                       *)
(***************************************************************************)
\* What the audio device does with an open request: result is "ok" or the
\* step that fails, sampleRate and channelCount what AAudioStream_getSampleRate
\* and AAudioStream_getChannelCount report of the opened stream.
AudioDevice(result, sampleRate, channelCount) ==
    [result |-> result, sampleRate |-> sampleRate, channelCount |-> channelCount]

\* AudioPlayer::shutdown()
audioPlayerShutdown(p) == AudioPlayerConstructed

\* AudioPlayer::open(sampleRate, channelCount): [p, ret].
open(p, sampleRate, channelCount, dev) ==
    IF dev.result = "createStreamBuilder" THEN [p |-> p, ret |-> FALSE]
    ELSE IF dev.result # "ok" THEN [p |-> [p EXCEPT !.stream_ = FALSE], ret |-> FALSE]
    ELSE [p |-> [stream_ |-> TRUE, sampleRate_ |-> dev.sampleRate,
                 channelCount_ |-> dev.channelCount],
          ret |-> TRUE]

\* AudioPlayer::ensureStarted(sampleRate, channelCount): [p, ret, closed,
\* opened], closed saying it closed a stream and opened that it opened one.
ensureStarted(p, sampleRate, channelCount, dev) ==
    IF p.stream_ /\ p.sampleRate_ = sampleRate /\ p.channelCount_ = channelCount
    THEN [p |-> p, ret |-> TRUE, closed |-> FALSE, opened |-> FALSE]
    ELSE LET opening == open(audioPlayerShutdown(p), sampleRate, channelCount, dev)
         IN [p |-> opening.p, ret |-> opening.ret, closed |-> p.stream_,
             opened |-> opening.ret]

\* LibretroVbCore::drainAudioFrames(out, maxFrames): up to maxFrames frames
\* leave the queue, oldest first.  Result: [frames, queue].
drainAudioFrames(queue, maxFrames) ==
    LET n == Min(Len(queue), maxFrames)
    IN [frames |-> SubSeq(queue, 1, n), queue |-> SubSeq(queue, n + 1, Len(queue))]

\* A variant of chunkIsLast that ends the loop after every chunk.
chunkIsLastAlways(frames) == TRUE

\* if (frames < 2048) break;
chunkIsLast(frames) == frames < kAudioChunkFrames

\* The while (true) loop of pumpAudio: [queue, drained, written].
RECURSIVE pumpLoop(_, _, _)
pumpLoop(queue, drained, written) ==
    The({IF Len(d.frames) = 0
         THEN [queue |-> d.queue, drained |-> Append(drained, d.frames), written |-> written]
         ELSE IF chunkIsLast(Len(d.frames))
         THEN [queue |-> d.queue, drained |-> Append(drained, d.frames),
               written |-> Append(written, d.frames)]
         ELSE pumpLoop(d.queue, Append(drained, d.frames), Append(written, d.frames))
         : d \in {drainAudioFrames(queue, kAudioChunkFrames)}})

\* pumpAudio(): [a, audio], audio being the observation of the call.
pumpAudio(a, dev) ==
    IF ~a.romLoaded THEN [a |-> a, audio |-> [AudioIdle EXCEPT !.called = TRUE]]
    ELSE
    The({IF ~started.ret
         THEN [a |-> [a EXCEPT !.audioPlayer_ = started.p],
               audio |-> [AudioIdle EXCEPT !.called = TRUE, !.closed = started.closed,
                                           !.before = a.audioQueue_]]
         ELSE The({[a |-> [a EXCEPT !.audioPlayer_ = started.p, !.audioQueue_ = pumped.queue],
                    audio |-> [called |-> TRUE, started |-> TRUE, closed |-> started.closed,
                               opened |-> started.opened, before |-> a.audioQueue_,
                               drained |-> pumped.drained, written |-> pumped.written]]
                   : pumped \in {pumpLoop(a.audioQueue_, <<>>, <<>>)}})
         : started \in {ensureStarted(a.audioPlayer_, audioSampleRate, 2, dev)}})

\* core_.runFrame() as far as audio goes: the emulator queues n frames,
\* numbered on from the produced frames before.
queueAudio(a, produced, n) ==
    [a EXCEPT !.audioQueue_ = @ \o [i \in 1..n |-> produced + i]]

\* A variant of exitRequested that never reports a request.
exitRequestedNever(x) == FALSE

\* XrStereoRenderer::exitRequested()
exitRequested(x) == x.exitRequested_

\* A variant of reloadDue that retries on every tick.
reloadDueEveryTick(a) == TRUE

\* if (reloadCounter_ <= 0): the tick retries the default ROM.
reloadDue(a) == a.reloadCounter_ <= 0

\* tick(); take is what its call of TakePendingRom returns (if it gets that
\* far), in what the platform, the runtime and the player supply during it.
\* Result: [a, x, taken, signal, o, c, saved], taken saying whether it got
\* that far and saved listing the settings it saved.
tick(a, x, take, signal, o, in) ==
    IF ~a.running_ \/ ~a.resumed_
    THEN [a |-> a, x |-> x, taken |-> FALSE, signal |-> signal, o |-> o, c |-> CallIdle,
          saved |-> <<>>]
    ELSE
    LET polled == IF x.initialized_ THEN pollEvents(x, in.poll.events, in.poll.beginOk)
                  ELSE x
        counted == [o EXCEPT !.ticks = @ + 1, !.sampled = FALSE, !.emulated = FALSE,
                             !.frame = <<>>, !.xrRendered = FALSE, !.flatFrame = <<>>,
                             !.reloadTried = FALSE, !.audio = AudioIdle]
    IN
    IF x.initialized_ /\ exitRequested(polled)
    THEN [a |-> [a EXCEPT !.running_ = FALSE], x |-> polled, taken |-> FALSE,
          signal |-> signal,
          o |-> counted, c |-> CallIdle, saved |-> <<>>]
    ELSE
    LET xrState == IF x.initialized_ /\ polled.sessionRunning_ THEN in.pad ELSE {}
        a1 == IF "rightThumbClick" \in xrState /\ ~a.prevXrRightThumbClick_
              THEN toggleInfoWindow(a) ELSE a
        infoFired == a1.showInfoWindow_ # a.showInfoWindow_
        picked == consumePicker(a1, take, signal, in)
        pickerFired == "leftThumbClick" \in xrState /\ ~a.prevXrLeftThumbClick_
    IN
    The({The({The({The({The({
    LET bHeld == "b" \in (a3.input_ \cup xrState)
        merged == mergeInput(a3.input_, xrState)
        coreInput == walk.input
        a4 == IF a3.romLoaded THEN sound.a
              ELSE IF reloadDue(a3)
              THEN [tryLoadDefaultRom(a3, in.defaultRom, in.launchOk) EXCEPT
                        !.reloadCounter_ = kRomReloadFrames]
              ELSE [a3 EXCEPT !.reloadCounter_ = @ - 1]
        frame == IF ~a3.romLoaded THEN StandbySize
                 ELSE IF in.hasFrame THEN GameFrameSize ELSE <<>>
        shown == IF ~a3.romLoaded THEN present(a4, x1, StandbySize, in)
                 ELSE IF in.hasFrame THEN present(a4, walk.x, GameFrameSize, in)
                 ELSE [x |-> walk.x, c |-> CallIdle, flat |-> <<>>]
        viewFired == a3.romLoaded /\ cal.toggled
        o1 == IF a3.romLoaded
              THEN [counted EXCEPT !.sampled = TRUE, !.emulated = TRUE,
                                   !.infoShown = a3.showInfoWindow_,
                                   !.physical = a3.input_,
                                   !.xrButtons = xrState \cap Buttons,
                                   !.merged = merged, !.coreInput = coreInput,
                                   !.adjusted = cal.adjusted,
                                   !.grip = {"leftGrip", "rightGrip"} \cap xrState # {},
                                   !.navInput = cal.input,
                                   !.walkReset = walk.reset,
                                   !.audio = sound.audio,
                                   !.audioProduced = @ + in.audioFrames]
              ELSE [counted EXCEPT !.sampled = TRUE,
                                   !.reloadTried = reloadDue(a3),
                                   !.sinceTried = IF reloadDue(a3) THEN 0
                                                  ELSE IF @ = -1 THEN -1 ELSE @ + 1]
        o2 == Sample(o1, "infoThumb", "rightThumbClick" \in xrState, infoFired)
        o3 == Sample(o2, "pickerThumb", "leftThumbClick" \in xrState, pickerFired)
        o4 == Sample(o3, "viewModeB", bHeld /\ a3.showInfoWindow_, viewFired)
        o5 == IF a3.romLoaded
              THEN Sample(o4, "viewModeBPlaying", bHeld /\ a3.showInfoWindow_, viewFired)
              ELSE o4
        o6 == [o5 EXCEPT !.frame = frame, !.xrRendered = shown.c.ret,
                         !.flatFrame = shown.flat]
    IN [a |-> [a4 EXCEPT !.prevXrLeftThumbClick_ = "leftThumbClick" \in xrState,
                         !.prevXrRightThumbClick_ = "rightThumbClick" \in xrState],
        x |-> shown.x, taken |-> TRUE, signal |-> picked.signal, o |-> o6,
        c |-> shown.c, saved |-> IF a3.romLoaded THEN cal.saved ELSE <<>>]
      : sound \in {IF a3.romLoaded
                   THEN pumpAudio(queueAudio(walk.a, o.audioProduced, in.audioFrames),
                                  in.audioDevice)
                   ELSE [a |-> walk.a, audio |-> AudioIdle]}})
      : walk \in {applyDepthWalkthroughControls(cal.a, cal.x, xrState, in.sticks,
                                                in.heading, cal.input)}})
      : cal \in {applyCalibrationInput(a3, x1, mergeInput(a3.input_, xrState))}})
      : a3 \in {IF pickerFired THEN requestRomPicker(picked.a, FALSE, in.launchOk)
                ELSE picked.a}})
      : x1 \in {IF x.initialized_ THEN setOverlayVisible(polled, a.showInfoWindow_)
                ELSE polled}})

(***************************************************************************)
(* StereoDepthReconstructor (stereo_depth_reconstructor.cpp)               *)
(***************************************************************************)
\* DepthReconstructionConfig with its default member initializers.  Pixels and
\* metres are in thousandths (focal length 250 px is 250000, baseline 0.064 m
\* is 64); the grid steps are whole numbers.
DefaultConfig ==
    [focalLengthPx |-> 250000, baselineMeters |-> 64, disparityBiasPx |-> 0,
     minDisparityPx |-> 300, nearZ |-> 450, farZ |-> 8500, baseDistanceMeters |-> 1250,
     gridStepX |-> 8, gridStepY |-> 2]

\* A depth is a fraction num / den of thousandths of a metre (den > 0), so a
\* quotient is kept exactly.
Whole(v) == [num |-> v, den |-> 1]
SameDepth(p, q) == p.num * q.den = q.num * p.den

\* The reconstructor as constructed, before any call: op is the last call
\* made, disparityPx its argument and depth its result.
ReconConstructed ==
    [config_ |-> DefaultConfig, op |-> "none", disparityPx |-> 0, depth |-> Whole(0)]

\* A variant of setConfig that leaves minDisparityPx as given.
setConfigKeepsMinDisparity(config) ==
    LET nearZ == Max(config.nearZ, 10)
    IN [config EXCEPT !.focalLengthPx = Max(@, 1000),
                      !.baselineMeters = Max(@, 1),
                      !.nearZ = nearZ,
                      !.farZ = Max(@, nearZ + 10),
                      !.gridStepX = Max(@, 1),
                      !.gridStepY = Max(@, 1)]

\* setConfig(config): the config_ it leaves.
setConfig(config) ==
    LET nearZ == Max(config.nearZ, 10)
    IN [config EXCEPT !.focalLengthPx = Max(@, 1000),
                      !.baselineMeters = Max(@, 1),
                      !.minDisparityPx = Max(@, 1),
                      !.nearZ = nearZ,
                      !.farZ = Max(@, nearZ + 10),
                      !.gridStepX = Max(@, 1),
                      !.gridStepY = Max(@, 1)]

\* A variant of effectiveDisparity that does not subtract the bias.
effectiveDisparityWithoutBias(config, disparityPx) == Abs(disparityPx)

\* std::fabs(disparityPx) - config_.disparityBiasPx
effectiveDisparity(config, disparityPx) == Abs(disparityPx) - config.disparityBiasPx

\* reconstructDepthMeters(disparityPx): focal length times baseline over
\* std::max(effectiveDisparity, 0.001f), clamped with std::clamp; the
\* comparisons of the quotient with nearZ and farZ are made on its numerator.
reconstructDepthMeters(config, disparityPx) ==
    LET effective == effectiveDisparity(config, disparityPx)
        divisor == Max(effective, 1)
        product == config.focalLengthPx * config.baselineMeters
    IN IF effective < config.minDisparityPx THEN Whole(config.farZ)
       ELSE IF product < config.nearZ * divisor THEN Whole(config.nearZ)
       ELSE IF config.farZ * divisor < product THEN Whole(config.farZ)
       ELSE [num |-> product, den |-> divisor]

\* DepthMeshData with its default member initializers.
EmptyMesh ==
    [vertices |-> <<>>, indices |-> <<>>, gridColumns |-> 0, gridRows |-> 0, valid |-> FALSE]

\* The arguments of buildMesh: disparity is the array behind the pointer (its
\* elements in row order), disparityNull says the pointer is nullptr; the uv
\* offset and scale are in thousandths.
NoMeshArgs ==
    [disparityNull |-> TRUE, disparity |-> <<>>, disparityWidth |-> 0, disparityHeight |-> 0,
     disparityOffsetX |-> 0, sampleWidth |-> 0, sampleHeight |-> 0,
     uvOffsetX |-> 0, uvScaleX |-> 0]

\* No mesh built so far.  op is the last construction called, config the
\* config_ it ran with, in its arguments, returned whether the call came back,
\* ret its result, out the mesh of buildMesh, outMeshes the two meshes of
\* buildStereoMeshes, and reads the indices at which it read the disparity
\* array.
MeshIdle ==
    [op |-> "none", config |-> DefaultConfig, in |-> NoMeshArgs, returned |-> TRUE,
     ret |-> FALSE, out |-> EmptyMesh, outMeshes |-> <<EmptyMesh, EmptyMesh>>, reads |-> {}]

\* The guard at the head of buildMesh.
meshArgsRejected(in) ==
    \/ in.disparityNull
    \/ in.disparityWidth <= 1 \/ in.disparityHeight <= 1
    \/ in.sampleWidth <= 1 \/ in.sampleHeight <= 1
    \/ in.disparityOffsetX < 0
    \/ in.disparityOffsetX + in.sampleWidth > in.disparityWidth

\* cols and rows: ((extent - 1) / step) + 1 in int arithmetic (the extent is
\* above 1 and the step at least 1 wherever this is evaluated).
gridCount(extent, step) == ((extent - 1) \div step) + 1

\* px and py: std::min(g * step, extent - 1)
gridSample(g, step, extent) == Min(g * step, extent - 1)

\* The six indices of the quad at (gx, gy), in push_back order, each cast to
\* the index type.
quadIndices(gx, gy, cols) ==
    LET i0 == ToIndex((gy * cols) + gx)
        i1 == ToIndex((gy * cols) + (gx + 1))
        i2 == ToIndex(((gy + 1) * cols) + gx)
        i3 == ToIndex(((gy + 1) * cols) + (gx + 1))
    IN <<i0, i2, i1, i1, i2, i3>>

\* The index loop: quads row by row, six indices each.
gridIndices(cols, rows) ==
    [i \in 1..((cols - 1) * (rows - 1) * 6) |->
        LET quad == (i - 1) \div 6
        IN quadIndices(quad % (cols - 1), quad \div (cols - 1), cols)[((i - 1) % 6) + 1]]

\* A variant of buildMesh's vertex limit test that accepts a grid of exactly
\* the limit.
vertexCountRejectedAboveLimit(vertexCount) == vertexCount > VertexLimit

\* vertexCount >= 65535
vertexCountRejected(vertexCount) == vertexCount >= VertexLimit

\* sampleIndex of the grid vertex (gx, gy).
sampleIndex(config, in, gx, gy) ==
    (gridSample(gy, config.gridStepY, in.sampleHeight) * in.disparityWidth)
        + (in.disparityOffsetX + gridSample(gx, config.gridStepX, in.sampleWidth))

\* The indices buildMesh reads disparity[] at, for arguments it does not
\* reject at once.
meshReads(config, in) ==
    LET cols == gridCount(in.sampleWidth, config.gridStepX)
        rows == gridCount(in.sampleHeight, config.gridStepY)
    IN IF meshArgsRejected(in) THEN {}
       ELSE IF cols <= 1 \/ rows <= 1 \/ vertexCountRejected(cols * rows) THEN {}
       ELSE {sampleIndex(config, in, gx, gy) : gx \in 0..(cols - 1), gy \in 0..(rows - 1)}

\* Whether an index lies in the array the caller passed.
InArray(array, index) == index \in 0..(Len(array) - 1)

\* The five floats of one vertex.  A coordinate is kept as the terms of its
\* float expression: xMeters and yMeters as the doubled distance from the
\* centre (2 * (px - cx), 2 * (cy - py)) with the depth it is multiplied by,
\* zMeters, u and v as fractions.
meshVertex(config, in, px, py, z) ==
    <<[twice |-> (2 * px) - (in.sampleWidth - 1), depth |-> z],
      [twice |-> (in.sampleHeight - 1) - (2 * py), depth |-> z],
      [num |-> -(z.num + (config.baseDistanceMeters * z.den)), den |-> z.den],
      [num |-> (in.uvOffsetX * (in.sampleWidth - 1)) + (px * in.uvScaleX),
       den |-> in.sampleWidth - 1],
      [num |-> py, den |-> in.sampleHeight - 1]>>

\* A variant of the vertices.resize argument with four floats a vertex.
vertexFloatsFour(vertexCount) == vertexCount * 4

\* static_cast<size_t>(vertexCount) * 5
vertexFloats(vertexCount) == vertexCount * 5

\* buildMesh(disparity, ..., out): the result, the mesh left in out and the
\* indices read.  stray is what a read outside the array yields.  Every depth
\* of the model is finite, so the std::isfinite test never replaces z by
\* prevZ.
buildMesh(config, in, stray) ==
    LET cols == gridCount(in.sampleWidth, config.gridStepX)
        rows == gridCount(in.sampleHeight, config.gridStepY)
        vertexCount == cols * rows
        vertexAt(gx, gy) ==
            LET px == gridSample(gx, config.gridStepX, in.sampleWidth)
                py == gridSample(gy, config.gridStepY, in.sampleHeight)
                index == sampleIndex(config, in, gx, gy)
                disparityPx == IF InArray(in.disparity, index)
                               THEN At(in.disparity, index) ELSE stray
            IN meshVertex(config, in, px, py,
                          reconstructDepthMeters(config, disparityPx * 1000))
        vertices == [i \in 1..vertexFloats(vertexCount) |->
                        LET dst == (i - 1) \div 5
                        IN vertexAt(dst % cols, dst \div cols)[((i - 1) % 5) + 1]]
        indices == gridIndices(cols, rows)
        valid == vertices # <<>> /\ indices # <<>>
    IN IF meshArgsRejected(in) THEN [ret |-> FALSE, out |-> EmptyMesh]
       ELSE IF cols <= 1 \/ rows <= 1 THEN [ret |-> FALSE, out |-> EmptyMesh]
       ELSE IF vertexCountRejected(vertexCount) THEN [ret |-> FALSE, out |-> EmptyMesh]
       ELSE [ret |-> valid,
             out |-> [vertices |-> vertices, indices |-> indices,
                      gridColumns |-> cols, gridRows |-> rows, valid |-> valid]]

(***************************************************************************)
(* VipMappingEvaluator (vip_mapping_evaluator.cpp)                         *)
(***************************************************************************)
\* static_cast<int16_t>(-32768)
kInvalidSourceCoord == -32768

\* EyeSample with its default member initializers.
NoSample == [sx |-> 0, sy |-> 0, valid |-> FALSE]

\* The evaluator as constructed.  sourceX_ and sourceY_ are the arrays behind
\* the pointers (elements in row order) with sourceXNull and sourceYNull
\* saying the pointer is nullptr.  op is the last call made, ret the result
\* of bind, eye, x and y the arguments of evaluateEye, sample its result and
\* reads the indices at which it read the arrays.
VipConstructed ==
    [sourceXNull |-> TRUE, sourceYNull |-> TRUE, sourceX_ |-> <<>>, sourceY_ |-> <<>>,
     width_ |-> 0, height_ |-> 0, eyeWidth_ |-> 0, eyeHeight_ |-> 0, valid_ |-> FALSE,
     op |-> "none", ret |-> FALSE, eye |-> 0, x |-> 0, y |-> 0, sample |-> NoSample,
     reads |-> {}]

\* bind(sourceX, sourceY, width, height, eyeWidth, eyeHeight): the fields it
\* leaves.
bind(v, in) ==
    [v EXCEPT !.sourceXNull = in.sourceXNull, !.sourceYNull = in.sourceYNull,
              !.sourceX_ = in.sourceX, !.sourceY_ = in.sourceY,
              !.width_ = in.width, !.height_ = in.height,
              !.eyeWidth_ = in.eyeWidth, !.eyeHeight_ = in.eyeHeight,
              !.valid_ = /\ ~in.sourceXNull /\ ~in.sourceYNull
                         /\ in.width > 0 /\ in.height > 0
                         /\ in.eyeWidth > 0 /\ in.eyeHeight > 0]

\* A variant of stereoReady that does not compare width_ with two eye widths.
stereoReadyWhenValid(v) == v.valid_

\* stereoReady()
stereoReady(v) == v.valid_ /\ v.width_ >= v.eyeWidth_ * 2

\* The first guard of evaluateEye.
eyeCoordRejected(v, eye, x, y) ==
    \/ ~v.valid_
    \/ eye < 0 \/ eye > 1
    \/ x < 0 \/ y < 0
    \/ x >= v.eyeWidth_ \/ y >= v.eyeHeight_

\* A variant of the second guard that does not compare y with height_.
frameCoordRejectedByWidthOnly(v, screenX, y) == screenX < 0 \/ screenX >= v.width_

\* The second guard of evaluateEye.
frameCoordRejected(v, screenX, y) == screenX < 0 \/ screenX >= v.width_ \/ y >= v.height_

\* What a read of sourceX_[index] or sourceY_[index] yields: the element, or
\* the stray value when the index is outside the array.
ReadSource(array, index, stray) ==
    IF index \in 0..(Len(array) - 1) THEN At(array, index) ELSE stray

\* evaluateEye(eye, x, y): the sample returned and the indices read.
evaluateEye(v, eye, x, y, stray) ==
    LET screenX == x + (eye * v.eyeWidth_)
        index == (y * v.width_) + screenX
        rawX == ReadSource(v.sourceX_, index, stray)
        rawY == ReadSource(v.sourceY_, index, stray)
    IN IF eyeCoordRejected(v, eye, x, y) THEN [sample |-> NoSample, reads |-> {}]
       ELSE IF frameCoordRejected(v, screenX, y) THEN [sample |-> NoSample, reads |-> {}]
       ELSE IF rawX = kInvalidSourceCoord \/ rawY = kInvalidSourceCoord
            THEN [sample |-> NoSample, reads |-> {index}]
       ELSE [sample |-> [sx |-> rawX, sy |-> rawY, valid |-> TRUE], reads |-> {index}]

\* What one xrPollEvent loop delivers: a batch of session events and the result
\* of xrBeginSession (which matters only when the batch holds READY).
PollsOver(events, beginMayFail) ==
    {[events |-> b, beginOk |-> ok] :
        b \in SeqsUpTo(events, MaxEvents),
        ok \in {TRUE}} \cup
    {[events |-> b, beginOk |-> FALSE] :
        b \in {q \in SeqsUpTo(events, MaxEvents) :
                  beginMayFail /\ \E i \in 1..Len(q) : q[i] = "READY"}}

(***************************************************************************)
(* Renderer actions                                                        *)
(***************************************************************************)
Initialize ==
    \E activityPresent \in BOOLEAN, failedStep \in 0..Len(InitSteps) :
        LET r == initialize(xr, activityPresent, failedStep)
        IN /\ xr' = r.x
           /\ call' = [CallIdle EXCEPT !.op = "initialize", !.ret = r.ret]
           /\ UNCHANGED <<metaInput, appVars, threads, geoVars>>

Shutdown ==
    /\ xr' = shutdown(xr)
    /\ call' = CallIdle
    /\ UNCHANGED <<metaInput, appVars, threads, geoVars>>

PollEvents(polls) ==
    \E p \in polls :
        /\ xr' = pollEvents(xr, p.events, p.beginOk)
        /\ call' = [CallIdle EXCEPT !.sessionBegan = SessionBegan(xr, p.events, p.beginOk)]
        /\ UNCHANGED <<metaInput, appVars, threads, geoVars>>

UpdateFrame(sizes) ==
    \E sz \in sizes, pixelsPresent \in BOOLEAN, eglOk \in BOOLEAN :
        /\ xr' = updateFrame(xr, pixelsPresent, sz[1], sz[2], eglOk)
        /\ call' = CallIdle
        /\ UNCHANGED <<metaInput, appVars, threads, geoVars>>

UpdateDepthMetadata(uploads) ==
    \E md \in uploads, eglOk \in BOOLEAN :
        /\ xr' \in updateDepthMetadata(xr, md, eglOk)
        /\ call' = [CallIdle EXCEPT !.op = IF metadataRejected(xr, md, eglOk)
                                           THEN "none" ELSE "updateDepthMetadata"]
        /\ UNCHANGED <<metaInput, appVars, threads, geoVars>>

RenderFrame(polls, envs) ==
    \E p \in polls, env \in envs :
        LET r == renderFrame(xr, p.events, p.beginOk, env)
        IN /\ xr' = r.x
           /\ call' = r.c
           /\ UNCHANGED <<metaInput, appVars, threads, geoVars>>

SetDepthMetadataEnabled ==
    \E enabled \in BOOLEAN :
        /\ xr' = setDepthMetadataEnabled(xr, enabled)
        /\ call' = CallIdle
        /\ UNCHANGED <<metaInput, appVars, threads, geoVars>>

SetWorldAnchoredEnabled ==
    \E enabled \in BOOLEAN :
        /\ xr' = setWorldAnchoredEnabled(xr, enabled)
        /\ call' = CallIdle
        /\ UNCHANGED <<metaInput, appVars, threads, geoVars>>

ResetWorldAnchor ==
    /\ xr' = resetWorldAnchor(xr)
    /\ call' = CallIdle
    /\ UNCHANGED <<metaInput, appVars, threads, geoVars>>

SetOverlayVisible ==
    \E visible \in BOOLEAN :
        /\ xr' = setOverlayVisible(xr, visible)
        /\ call' = CallIdle
        /\ UNCHANGED <<metaInput, appVars, threads, geoVars>>

SetPresentationConfig(values) ==
    \E v \in values :
        /\ xr' = setPresentationConfig(xr, v[1], v[2])
        /\ call' = CallIdle
        /\ UNCHANGED <<metaInput, appVars, threads, geoVars>>

SetWalkthroughOffset(values) ==
    \E v \in values :
        /\ xr' = setWalkthroughOffset(xr, v[1], v[2], v[3])
        /\ call' = CallIdle
        /\ UNCHANGED <<metaInput, appVars, threads, geoVars>>

SetWalkthroughRotation(values) ==
    \E v \in values :
        /\ xr' = setWalkthroughRotation(xr, v[1], v[2])
        /\ call' = CallIdle
        /\ UNCHANGED <<metaInput, appVars, threads, geoVars>>

SetConfig(configs) ==
    \E config \in configs :
        /\ recon' = [config_ |-> setConfig(config), op |-> "setConfig",
                     disparityPx |-> 0, depth |-> Whole(0)]
        /\ UNCHANGED <<xrVars, appVars, threads, mesh, vip>>

\* reconstructDepthMeters is private: buildMesh calls it for each grid vertex
\* with the int8 disparity read there; here it is also called on its own.
ReconstructDepthMeters(disparities) ==
    \E disparityPx \in disparities :
        /\ recon' = [recon EXCEPT !.op = "reconstructDepthMeters",
                                  !.disparityPx = disparityPx,
                                  !.depth = reconstructDepthMeters(recon.config_, disparityPx)]
        /\ UNCHANGED <<xrVars, appVars, threads, mesh, vip>>

\* buildMesh on the reconstructor.  A read outside the disparity array is
\* undefined: it yields some value of the element type, or the call faults
\* and never returns (out then holds what was written before the fault).
BuildMesh(calls, strays) ==
    \E in \in calls :
        \E reads \in {meshReads(recon.config_, in)} :
            \E outside \in {\E index \in reads : ~InArray(in.disparity, index)} :
                \E stray \in IF outside THEN strays ELSE {0},
                   faults \in IF outside THEN BOOLEAN ELSE {FALSE} :
                    \E built \in {buildMesh(recon.config_, in, stray)} :
                        /\ mesh' = [op |-> "buildMesh", config |-> recon.config_, in |-> in,
                                    returned |-> ~faults,
                                    ret |-> built.ret /\ ~faults,
                                    out |-> IF faults
                                            THEN [built.out EXCEPT !.indices = <<>>,
                                                                   !.valid = FALSE]
                                            ELSE built.out,
                                    outMeshes |-> mesh.outMeshes,
                                    reads |-> reads]
                        /\ UNCHANGED <<xrVars, appVars, threads, recon, vip>>

(***************************************************************************)
(* WorldMeshBuilder (world_mesh_builder.cpp)                               *)
(***************************************************************************)
\* The two samples of a grid point: evaluateEye for eye 0 and eye 1, both
\* replaced by fallback when either is invalid.  evaluateEye reads inside
\* the arrays only, so the stray value is never used.
eyePair(v, x, y, fallback) ==
    LET left == evaluateEye(v, 0, x, y, 0).sample
        right == evaluateEye(v, 1, x, y, 0).sample
    IN IF ~left.valid \/ ~right.valid THEN fallback
       ELSE [left |-> left, right |-> right]

\* The disparity estimated at the grid point (px, py) as a fraction, or
\* prevD when the tangent is too short.  tx and ty are kept doubled
\* (2 * tx = (leftNext.sx + rightNext.sx) - (left.sx + right.sx)); source
\* coordinates are whole numbers, so t2 > 1e-4 exactly when the doubled
\* tangent is not zero.
estimateDisparity(v, px, py, nx, prevD) ==
    LET own == [sx |-> px, sy |-> py, valid |-> TRUE]
        here == eyePair(v, px, py, [left |-> own, right |-> own])
        next == eyePair(v, nx, py, here)
        tx == (next.left.sx + next.right.sx) - (here.left.sx + here.right.sx)
        ty == (next.left.sy + next.right.sy) - (here.left.sy + here.right.sy)
        dsx == here.left.sx - here.right.sx
        dsy == here.left.sy - here.right.sy
        t2 == (tx * tx) + (ty * ty)
    IN IF t2 > 0 THEN [num |-> 2 * ((tx * dsx) + (ty * dsy)), den |-> t2]
       ELSE prevD

\* zMeters of buildStereoMeshes for the estimated disparity d (a fraction of
\* whole pixels): denom = d - disparityBiasPx, farZ unless
\* fabs(denom) >= minDisparityPx, else the clamped quotient.
stereoDepth(config, d) ==
    LET denom == (1000 * d.num) - (config.disparityBiasPx * d.den)
        product == config.focalLengthPx * config.baselineMeters * d.den
    IN IF Abs(denom) < config.minDisparityPx * d.den THEN Whole(config.farZ)
       ELSE IF product < config.nearZ * Abs(denom) THEN Whole(config.nearZ)
       ELSE IF config.farZ * Abs(denom) < product THEN Whole(config.farZ)
       ELSE [num |-> product, den |-> Abs(denom)]

\* d of the k-th vertex of the loop (row by row), with prevD carried from the
\* vertex before and 0 before the first.
RECURSIVE vertexDisparity(_, _, _, _, _)
vertexDisparity(v, stepX, stepY, cols, k) ==
    LET px == gridSample(k % cols, stepX, v.eyeWidth_)
        py == gridSample(k \div cols, stepY, v.eyeHeight_)
        nx == Min(px + stepX, v.eyeWidth_ - 1)
        prevD == IF k = 0 THEN Whole(0)
                 ELSE vertexDisparity(v, stepX, stepY, cols, k - 1)
    IN estimateDisparity(v, px, py, nx, prevD)

\* buildStereoMeshes(mappingEvaluator, reconstructor, outMeshes): the result
\* and the two meshes left in outMeshes.  Unlike buildMesh it has no test of
\* the vertex count before the resize.
buildStereoMeshes(v, config) ==
    LET eyeWidth == v.eyeWidth_
        eyeHeight == v.eyeHeight_
        stepX == Max(1, config.gridStepX)
        stepY == Max(1, config.gridStepY)
        cols == gridCount(eyeWidth, stepX)
        rows == gridCount(eyeHeight, stepY)
        extent == [sampleWidth |-> eyeWidth, sampleHeight |-> eyeHeight,
                   uvOffsetX |-> 0, uvScaleX |-> 1000]
        vertexAt(k) ==
            meshVertex(config, extent,
                       gridSample(k % cols, stepX, eyeWidth),
                       gridSample(k \div cols, stepY, eyeHeight),
                       stereoDepth(config, vertexDisparity(v, stepX, stepY, cols, k)))
        vertices == [i \in 1..vertexFloats(cols * rows) |->
                        vertexAt((i - 1) \div 5)[((i - 1) % 5) + 1]]
        indices == gridIndices(cols, rows)
        valid == vertices # <<>> /\ indices # <<>>
        built == [vertices |-> vertices, indices |-> indices,
                  gridColumns |-> cols, gridRows |-> rows, valid |-> valid]
        failed == [ret |-> FALSE, outMeshes |-> <<EmptyMesh, EmptyMesh>>]
    IN IF ~stereoReady(v) THEN failed
       ELSE IF eyeWidth <= 1 \/ eyeHeight <= 1 THEN failed
       ELSE IF cols <= 1 \/ rows <= 1 THEN failed
       ELSE IF ~valid THEN failed
       ELSE [ret |-> TRUE, outMeshes |-> <<built, built>>]

\* buildStereoMeshes on the evaluator and the reconstructor; in records the
\* eye size the call found.
BuildStereoMeshes ==
    \E built \in {buildStereoMeshes(vip, recon.config_)} :
        /\ mesh' = [op |-> "buildStereoMeshes", config |-> recon.config_,
                    in |-> [NoMeshArgs EXCEPT !.sampleWidth = vip.eyeWidth_,
                                              !.sampleHeight = vip.eyeHeight_,
                                              !.uvScaleX = 1000],
                    returned |-> TRUE, ret |-> built.ret, out |-> mesh.out,
                    outMeshes |-> built.outMeshes, reads |-> {}]
        /\ UNCHANGED <<xrVars, appVars, threads, recon, vip>>

Bind(binds) ==
    \E in \in binds :
        \E bound \in {bind(vip, in)} :
            /\ vip' = [bound EXCEPT !.op = "bind", !.ret = bound.valid_,
                                    !.eye = 0, !.x = 0, !.y = 0,
                                    !.sample = NoSample, !.reads = {}]
            /\ UNCHANGED <<xrVars, appVars, threads, recon, mesh>>

\* evaluateEye on the evaluator.  A read outside the arrays is undefined: it
\* yields some value of the element type.
EvaluateEye(eyes, xs, ys, strays) ==
    \E eye \in eyes, x \in xs, y \in ys, stray \in strays :
        \E result \in {evaluateEye(vip, eye, x, y, stray)} :
            /\ vip' = [vip EXCEPT !.op = "evaluateEye", !.ret = FALSE,
                                  !.eye = eye, !.x = x, !.y = y,
                                  !.sample = result.sample, !.reads = result.reads]
            /\ UNCHANGED <<xrVars, appVars, threads, recon, mesh>>

\* The App and the mailbox as constructed.
AppInit ==
    /\ app = AppConstructed
    /\ obs = ObsIdle
    /\ pendingRom = PendingEmpty
    /\ pickerSignal = FALSE
    /\ settingsFile = NoSettingsFile
    /\ threads = ThreadsIdle

\* The reconstructor, the mesh output and the mapping evaluator as constructed.
GeoInit ==
    /\ recon = ReconConstructed
    /\ mesh = MeshIdle
    /\ vip = VipConstructed

XrInit ==
    /\ xr = XrConstructed
    /\ call = CallIdle
    /\ metaInput = NullMetadata
    /\ AppInit
    /\ GeoInit

(***************************************************************************)
(* SpecXrPath: render-path selection.  Frames and metadata of every kind   *)
(* are uploaded, modes and the overlay are switched, sessions begin and    *)
(* stop, and each eye of a rendered frame may fail to acquire, wait or     *)
(* bind its image.                                                         *)
(***************************************************************************)
PathPolls == PollsOver({"READY", "STOPPING"}, FALSE)

XrPathNext ==
    \/ Initialize
    \/ PollEvents(PathPolls)
    \/ UpdateFrame(FrameSizes)
    \/ UpdateDepthMetadata(XrMetadata)
    \/ RenderFrame(PathPolls, EyeEnvs)
    \/ SetDepthMetadataEnabled
    \/ SetOverlayVisible

SpecXrPath == XrInit /\ [][XrPathNext]_vars

(***************************************************************************)
(* SpecXrAnchor: the world anchor.  The head moves between frames, modes   *)
(* are switched, the anchor is reset, sessions begin, stop and begin       *)
(* again, the renderer is shut down and initialized again, and the App     *)
(* applies its presentation settings in either view mode.                  *)
(***************************************************************************)
AnchorPolls == PollsOver({"READY", "STOPPING"}, TRUE)

\* The App as applyPresentationConfig() finds it after a calibration change.
AnchorApps ==
    {[AppConstructed EXCEPT !.viewMode_ = mode, !.screenScale_ = scale] :
        mode \in {"Classic", "Anchored"},
        scale \in {kDefaultScreenScale, kDefaultScreenScale + kScreenScaleStep}}

\* applyPresentationConfig() of an App with the fields of a.
ApplyPresentationConfig(apps) ==
    \E a \in apps :
        /\ xr' = applyPresentationConfig(a, xr)
        /\ call' = CallIdle
        /\ UNCHANGED <<metaInput, appVars, threads, geoVars>>

XrAnchorNext ==
    \/ Initialize
    \/ Shutdown
    \/ PollEvents(AnchorPolls)
    \/ RenderFrame(AnchorPolls, HeadEnvs)
    \/ SetDepthMetadataEnabled
    \/ SetWorldAnchoredEnabled
    \/ ResetWorldAnchor
    \/ ApplyPresentationConfig(AnchorApps)

SpecXrAnchor == XrInit /\ [][XrAnchorNext]_vars

(***************************************************************************)
(* SpecXrError: failures.  Any setup step of initialize and any OpenXR     *)
(* call of renderFrame may fail.                                           *)
(***************************************************************************)
ErrorPolls == PollsOver({"READY", "STOPPING", "EXITING"}, TRUE)

XrErrorNext ==
    \/ Initialize
    \/ Shutdown
    \/ PollEvents(ErrorPolls)
    \/ UpdateFrame({SizeSideBySide})
    \/ RenderFrame(ErrorPolls, FailureEnvs)

SpecXrError == XrInit /\ [][XrErrorNext]_vars

(***************************************************************************)
(* SpecLayers: the per-eye layer lists.  A renderer with a running         *)
(* session in depth mode is handed one metadata upload, drawn from row     *)
(* patterns over a palette of pixels, at widths below, at and above        *)
(* two eye widths, and frames are rendered before and after the upload.    *)
(***************************************************************************)
\* Pixels <<world id, disparity>>: ids 0 and 31 (kept) and 32 (skipped);
\* disparities whose absolute values are 128 (above full scale), 127, 64 and 0.
PixelPalette == <<<<0, -128>>, <<0, 0>>, <<31, 127>>, <<31, 64>>, <<32, 127>>>>

\* A row: the left eye's columns take every pattern over the palette, the
\* right eye's columns hold the left eye's pixels each replaced by the next
\* palette entry, and the column past both eyes (if any) takes every entry.
LayerRow(left, extra, width) ==
    [k \in 1..width |->
        IF k <= kVipEyeWidth THEN PixelPalette[left[k]]
        ELSE IF k <= 2 * kVipEyeWidth
             THEN PixelPalette[(left[k - kVipEyeWidth] % Len(PixelPalette)) + 1]
             ELSE PixelPalette[extra]]

LayerWidths == {(2 * kVipEyeWidth) - 1, 2 * kVipEyeWidth, (2 * kVipEyeWidth) + 1}

LayerUploads ==
    {MetadataOf(LayerRow(left, extra, w), w, kVipEyeHeight) :
        left \in [1..kVipEyeWidth -> DOMAIN PixelPalette],
        extra \in DOMAIN PixelPalette,
        w \in LayerWidths}

\* initialize, a READY event, setDepthMetadataEnabled(true), in that order.
DepthSessionRunning ==
    setDepthMetadataEnabled(
        pollEvents(initialize(XrConstructed, TRUE, 0).x, <<"READY">>, TRUE), TRUE)

\* The colour frame of the upload's size is already in place.
LayersInit ==
    /\ metaInput \in LayerUploads
    /\ xr = updateFrame(DepthSessionRunning, TRUE, metaInput.width, metaInput.height, TRUE)
    /\ call = CallIdle
    /\ AppInit
    /\ GeoInit

LayersNext ==
    \/ UpdateDepthMetadata({metaInput})
    \/ RenderFrame(PollsOver({}, FALSE), {AllSucceed})

SpecLayers == LayersInit /\ [][LayersNext]_vars

(***************************************************************************)
(* App actions.  The commands, the key events and the tick all run on the  *)
(* app's own thread, one at a time.                                        *)
(***************************************************************************)
\* What a tick is handed: the event batches of its two xrPollEvent loops, the
\* frame environment, the controller state, and the outcomes of ROM loading,
\* picker launch and emulation.
TickInputs(polls, innerPolls, envs, pads, loads, kept, roms) ==
    [poll : polls, innerPoll : innerPolls, env : envs, pad : pads,
     romLoadOk : loads, keptOnFailure : kept, defaultRom : roms,
     launchOk : {TRUE}, hasFrame : {TRUE}, eglOk : {TRUE},
     sticks : {NeutralSticks}, heading : {HeadingAhead},
     saveOk : {<<TRUE, TRUE>>}, halfUp : {TRUE},
     audioFrames : {0}, audioDevice : {AudioDevice("ok", audioSampleRate, 2)}]

OnCmd(cmds) ==
    /\ threads.tick.pc = "idle"
    /\ \E cmd \in cmds : app' = onCmd(app, cmd)
    /\ UNCHANGED <<xrVars, obs, pendingRom, pickerSignal, threads, settingsFile, geoVars>>

OnInitWindow(failedSteps, roms, windows) ==
    /\ threads.tick.pc = "idle"
    /\ \E step \in failedSteps, found \in roms, window \in windows :
          \E r \in {onInitWindow(app, xr, [settings |-> settingsFile.text,
                                            xrFailedStep |-> step,
                                            defaultRom |-> found, launchOk |-> TRUE,
                                            window |-> window])} :
             /\ app' = r.a
             /\ xr' = r.x
             /\ call' = r.c
    /\ obs' = IF ~app.presentationLoaded_ THEN [obs EXCEPT !.loadedFrom = settingsFile]
              ELSE obs
    /\ UNCHANGED <<metaInput, pendingRom, pickerSignal, threads, settingsFile, geoVars>>

OnKey(keys) ==
    /\ threads.tick.pc = "idle"
    /\ \E key \in keys, pressed \in BOOLEAN :
          LET a1 == onInput(app, key, pressed, TRUE)
          IN /\ app' = a1
             /\ obs' = IF key = "BUTTON_THUMBR"
                       THEN Sample(obs, "infoKey", pressed,
                                   a1.showInfoWindow_ # app.showInfoWindow_)
                       ELSE obs
    /\ UNCHANGED <<xrVars, pendingRom, pickerSignal, threads, settingsFile, geoVars>>

\* A tick, of a run of at most limit ticks.
TickWithin(ins, limit) ==
    /\ threads.tick.pc = "idle"
    /\ obs.ticks < limit
    /\ \E in \in ins :
          \E r \in {tick(app, xr, TakePendingRom(pendingRom), pickerSignal, obs, in)} :
             /\ app' = r.a
             /\ xr' = r.x
             /\ pendingRom' = IF r.taken THEN TakePendingRom(pendingRom).p ELSE pendingRom
             /\ pickerSignal' = r.signal
             /\ obs' = r.o
             /\ call' = r.c
             /\ settingsFile' = saveAll(settingsFile, r.saved, in.saveOk, in.halfUp)
    /\ UNCHANGED <<metaInput, threads, geoVars>>

Tick(ins) == TickWithin(ins, MaxTicks)

\* The settings file is put in place by something other than the running
\* app (an earlier installation, the user), before the app reads it.
WriteSettings(texts) ==
    /\ ~app.presentationLoaded_
    /\ \E text \in texts \ {settingsFile.text} :
          settingsFile' = [text |-> text, from |-> <<>>]
    /\ UNCHANGED <<xrVars, app, obs, pendingRom, pickerSignal, threads, geoVars>>

\* android_main() returns and is entered again: it constructs a new App,
\* in the same process, where the globals are as they were left, or in a
\* new one, where they are as constructed.  The files directory is kept.
Relaunch ==
    /\ threads.tick.pc = "idle"
    /\ app.presentationLoaded_
    /\ app' = AppConstructed
    /\ xr' = XrConstructed
    /\ call' = CallIdle
    /\ obs' = [ObsIdle EXCEPT !.ticks = obs.ticks]
    /\ \E sameProcess \in BOOLEAN :
          /\ pendingRom' = IF sameProcess THEN pendingRom ELSE PendingEmpty
          /\ pickerSignal' = IF sameProcess THEN pickerSignal ELSE FALSE
    /\ UNCHANGED <<metaInput, settingsFile, threads, geoVars>>

NativeOnRomPickerDismissed ==
    /\ pickerSignal' = TRUE
    /\ UNCHANGED <<xrVars, app, obs, pendingRom, threads, settingsFile, geoVars>>

(***************************************************************************)
(* SpecToggle: the edge-triggered toggles.  The app is started, resumed and*)
(* given its window; the player works both thumb clicks, B and the THUMBR  *)
(* key; each time the window arrives the default ROM is found or not.      *)
(***************************************************************************)
TogglePads == SUBSET {"rightThumbClick", "leftThumbClick", "b"}
ToggleTicks ==
    TickInputs(PollsOver({"READY"}, FALSE), PollsOver({}, FALSE), {AllSucceed},
               TogglePads, {TRUE}, {TRUE}, {FALSE})

ToggleNext ==
    \/ OnCmd({"START", "RESUME"})
    \/ OnInitWindow({0}, BOOLEAN, {"ok"})
    \/ OnKey({"BUTTON_THUMBR"})
    \/ Tick(ToggleTicks)

SpecToggle == XrInit /\ [][ToggleNext]_vars

(***************************************************************************)
(* SpecCalib: the calibration layer.  The app is started, resumed and      *)
(* given its window with a default ROM; the settings file is absent or     *)
(* holds values one step from a limit; the player holds L+R with up to two *)
(* more buttons on the pad, or up without the modifier, or the right thumb *)
(* click, and DPAD_UP and SELECT on the keys.                              *)
(***************************************************************************)
CalibSettings == {<<>>, SettingsText(98000, 7800, 1), SettingsText(22000, -7800, 0)}
CalibPads ==
    {{"l", "r"} \cup held :
        held \in {{}, {"up"}, {"down"}, {"left"}, {"right"}, {"a"}, {"up", "a"},
                  {"b", "start"}, {"up", "leftGrip"}}}
        \cup {{}, {"up"}, {"l", "up"}, {"rightThumbClick"}}
CalibTicks ==
    TickInputs(PollsOver({"READY"}, FALSE), PollsOver({}, FALSE), {AllSucceed},
               CalibPads, {TRUE}, {TRUE}, {TRUE})

CalibNext ==
    \/ OnCmd({"START", "RESUME"})
    \/ WriteSettings(CalibSettings)
    \/ OnInitWindow({0}, {TRUE}, {"ok"})
    \/ OnKey({"DPAD_UP", "BUTTON_SELECT"})
    \/ Tick(CalibTicks)

SpecCalib == XrInit /\ [][CalibNext]_vars

(***************************************************************************)
(* SpecFallback: presenting a frame.  The app is started, resumed, given   *)
(* and deprived of its window; the window is absent, usable or unusable    *)
(* for EGL; the XR renderer initializes or fails to; its session begins    *)
(* and stops; xrWaitFrame may fail; the default ROM is found or not and    *)
(* the emulator has a frame or not.                                        *)
(***************************************************************************)
FallbackEnvs == {AllSucceed, [AllSucceed EXCEPT !.waitFrame = FALSE]}
FallbackTicks ==
    {[t EXCEPT !.hasFrame = hasFrame] :
        t \in TickInputs(PollsOver({"READY", "STOPPING"}, FALSE), PollsOver({}, FALSE),
                         FallbackEnvs, {{}}, {TRUE}, {TRUE}, BOOLEAN),
        hasFrame \in BOOLEAN}

FallbackNext ==
    \/ OnCmd({"START", "RESUME", "TERM_WINDOW"})
    \/ OnInitWindow({0, 2}, BOOLEAN, Windows)
    \/ Tick(FallbackTicks)

SpecFallback == XrInit /\ [][FallbackNext]_vars

(***************************************************************************)
(* SpecWalk: the walkthrough.  The app has been started, given its window  *)
(* (XR renderer initialized, default ROM loaded) and resumed, its first    *)
(* tick has seen the session begin, and the player has walked to one of    *)
(* the starting poses and let go: home, or 0.01 short of the positive or   *)
(* the negative limits.  From there the player holds a grip and pushes the *)
(* sticks, L, R, A or B, and the renderer's walkthrough setters are called *)
(* with values inside and outside the limits.                              *)
(***************************************************************************)
\* Poses <<offsetX, offsetY, offsetZ, pitch>>, in millionths.
WalkStarts ==
    {<<0, 0, 0, 0>>,
     <<kWalkOffsetLimit - 10000, kWalkOffsetLimit - 10000, kWalkOffsetLimit - 10000,
       kWalkPitchLimit - 10000>>,
     <<10000 - kWalkOffsetLimit, 10000 - kWalkOffsetLimit, 10000 - kWalkOffsetLimit,
       10000 - kWalkPitchLimit>>}

\* Controller states: buttons and grips, sticks, and the heading that applies
\* once the yaw has left 0.
WalkMove(pad, lx, ly, rx, ry, sin, cos) ==
    [pad |-> pad,
     sticks |-> [leftStickX |-> lx, leftStickY |-> ly, rightStickX |-> rx, rightStickY |-> ry],
     heading |-> [sin |-> sin, cos |-> cos]]

WalkMoves ==
    {WalkMove({}, 1000, 1000, 1000, 1000, 0, 1000),
     WalkMove({"leftGrip"}, 1000, 0, 0, 0, 0, 1000),
     WalkMove({"leftGrip"}, 0, 1000, 0, 0, 0, 1000),
     WalkMove({"rightGrip"}, -1000, -1000, 0, 0, 600, 800),
     WalkMove({"leftGrip", "r"}, 0, 0, 0, 0, 0, 1000),
     WalkMove({"leftGrip", "l"}, 0, 0, 0, 0, 0, 1000),
     WalkMove({"leftGrip"}, 0, 0, 0, 1000, 0, 1000),
     WalkMove({"leftGrip"}, 0, 0, 0, -1000, 0, 1000),
     WalkMove({"leftGrip"}, 0, -1000, 1000, 0, 600, 800),
     WalkMove({"leftGrip"}, 100, 100, 100, 100, 0, 1000),
     WalkMove({"leftGrip", "a"}, 1000, 0, 0, 0, 0, 1000),
     WalkMove({"leftGrip", "b"}, 0, 0, 0, 0, 0, 1000),
     WalkMove({"a", "r"}, 1000, 1000, 1000, 1000, 0, 1000),
     WalkMove({"rightGrip", "a", "select"}, 0, 0, 0, 0, 0, 1000),
     WalkMove({"leftGrip", "left", "right", "up", "down", "a", "l", "r", "start"},
              0, 0, 0, 0, 0, 1000)}

WalkTicks ==
    {[t EXCEPT !.pad = mv.pad, !.sticks = mv.sticks, !.heading = mv.heading] :
        t \in TickInputs(PollsOver({}, FALSE), PollsOver({}, FALSE), {AllSucceed}, {{}},
                         {TRUE}, {TRUE}, {TRUE}),
        mv \in WalkMoves}

\* What the first tick is handed: a READY event, nothing else.
WalkFirstTicks ==
    {t \in TickInputs(PollsOver({"READY"}, FALSE), PollsOver({}, FALSE), {AllSucceed},
                      {{}}, {TRUE}, {TRUE}, {TRUE}) : t.poll.events = <<"READY">>}

\* The state after START, INIT_WINDOW, RESUME and a first tick that polls
\* READY, with the pose the player has then walked to.
WalkInit ==
    /\ \E start \in WalkStarts, first \in WalkFirstTicks,
          given \in {onInitWindow(onCmd(AppConstructed, "START"), XrConstructed,
                                  [settings |-> <<>>, xrFailedStep |-> 0,
                                   defaultRom |-> TRUE, launchOk |-> TRUE,
                                   window |-> "ok"])} :
          \E resumed \in {onCmd(given.a, "RESUME")} :
             \E booted \in {tick(resumed, given.x, TakePendingRom(PendingEmpty), FALSE,
                                 ObsIdle, first)} :
                /\ app = [booted.a EXCEPT !.walkOffsetX_ = start[1],
                                          !.walkOffsetY_ = start[2],
                                          !.walkOffsetZ_ = start[3],
                                          !.walkPitch_ = start[4]]
                /\ xr = pushWalkthrough(app, booted.x)
                /\ call = booted.c
                /\ obs = [booted.o EXCEPT !.ticks = 0]
    /\ metaInput = NullMetadata
    /\ pendingRom = PendingEmpty
    /\ pickerSignal = FALSE
    /\ settingsFile = NoSettingsFile
    /\ threads = ThreadsIdle
    /\ GeoInit

\* Arguments of direct calls of the renderer's walkthrough setters.
WalkSetterOffsets ==
    {<<0, 0, 0>>,
     <<kWalkOffsetLimit + 1, -(kWalkOffsetLimit + 1), kWalkOffsetLimit>>,
     <<-kWalkOffsetLimit, 5000000, 2 * kWalkOffsetLimit>>}
WalkSetterRotations ==
    {<<0, 0>>, <<7000000, kWalkPitchLimit + 1>>, <<-7000000, -(2 * kWalkPitchLimit)>>}

WalkNext ==
    \/ Tick(WalkTicks)
    \/ SetWalkthroughOffset(WalkSetterOffsets)
    \/ SetWalkthroughRotation(WalkSetterRotations)

SpecWalk == WalkInit /\ [][WalkNext]_vars

(***************************************************************************)
(* SpecPresent: screen scale and stereo convergence.  The app is started,  *)
(* resumed and given its window with a default ROM; the settings file is   *)
(* absent or holds values beyond or one step inside the limits; the player *)
(* holds L+R with one adjustment button; setPresentationConfig is called   *)
(* on the renderer with arguments inside and outside the limits.           *)
(***************************************************************************)
PresentSettings ==
    {<<>>, SettingsText(120000, -30000, 0), SettingsText(5000, 50000, 1),
     SettingsText(98000, 7800, 0)}
PresentPads ==
    {{}} \cup {{"l", "r", held} : held \in {"up", "down", "left", "right", "a"}}
PresentTicks ==
    TickInputs(PollsOver({"READY"}, FALSE), PollsOver({}, FALSE), {AllSucceed},
               PresentPads, {TRUE}, {TRUE}, {TRUE})
PresentSetterValues == {<<150000, 20000>>, <<0, -20000>>, <<50000, 1000>>}

PresentNext ==
    \/ OnCmd({"START", "RESUME"})
    \/ WriteSettings(PresentSettings)
    \/ OnInitWindow({0}, {TRUE}, {"ok"})
    \/ Tick(PresentTicks)
    \/ SetPresentationConfig(PresentSetterValues)

SpecPresent == XrInit /\ [][PresentNext]_vars

(***************************************************************************)
(* SpecStandby: the app without a ROM.  The app is started and resumed and *)
(* given a window; the XR renderer initializes or fails to; a session      *)
(* begins; xrWaitFrame may fail; the default ROM is missing when the       *)
(* window arrives and is found or not at each retry.  The run is long      *)
(* enough for three retries.                                               *)
(***************************************************************************)
StandbyTickLimit == 2 * (kRomReloadFrames + 1) + 2
StandbyTicks ==
    TickInputs(PollsOver({"READY"}, FALSE), PollsOver({}, FALSE), FallbackEnvs,
               {{}}, {TRUE}, {TRUE}, BOOLEAN)

StandbyNext ==
    \/ OnCmd({"START", "RESUME"})
    \/ OnInitWindow({0, 2}, {FALSE}, {"ok"})
    \/ TickWithin(StandbyTicks, StandbyTickLimit)

SpecStandby == XrInit /\ [][StandbyNext]_vars

(***************************************************************************)
(* SpecExit: the runtime asks the app to leave.  The app is started,       *)
(* paused and resumed and given its window with a default ROM; the session *)
(* becomes ready, and EXITING or LOSS_PENDING arrives in the tick's own     *)
(* xrPollEvent loop or in renderFrame's; android_main() is entered again.  *)
(***************************************************************************)
ExitTicks ==
    TickInputs(PollsOver({"READY", "EXITING", "LOSS_PENDING"}, FALSE),
               PollsOver({"EXITING"}, FALSE), {AllSucceed}, {{}, {"a"}},
               {TRUE}, {TRUE}, {TRUE})

ExitNext ==
    \/ OnCmd({"START", "RESUME", "PAUSE"})
    \/ OnInitWindow({0}, {TRUE}, {"ok"})
    \/ Tick(ExitTicks)
    \/ Relaunch

SpecExit == XrInit /\ [][ExitNext]_vars

(***************************************************************************)
(* SpecPicker: the ROM picker.  The app is started and resumed and given   *)
(* its window on a device without OpenXR and without a default ROM; the    *)
(* picker opens or fails to; the user leaves each open picker once, with a *)
(* ROM or without; the emulator accepts or rejects the ROM; the player     *)
(* presses the left and right thumb keys; android_main() is entered again  *)
(* while the pickers and, in the same process, the globals stay as they    *)
(* are.                                                                    *)
(***************************************************************************)
\* The payload of the k-th delivery; named says whether displayName is given.
Payload(k, named) ==
    [bytes |-> <<k>>, name |-> IF named THEN <<"rom", k>> ELSE <<"picked.vb">>]

\* The pickers after a handler took the App from a0 to a1: the handler
\* consumed the pending ROM (gotRom, loaded says it was accepted) or the
\* dismissal (gotSignal) before any launch, and opened at most one picker,
\* from tryLoadDefaultRom (auto) or on the player's request.
PickersAfter(p, a0, a1, gotRom, gotSignal, loaded, auto) ==
    LET consumed == IF gotRom THEN p.romFrom ELSE IF gotSignal THEN p.signalFrom ELSE 0
        requested == IF gotRom \/ gotSignal THEN FALSE ELSE a0.pickerRequested_
        launchedNow == ~requested /\ a1.pickerRequested_
        p1 == [p EXCEPT !.romFrom = IF gotRom THEN 0 ELSE @,
                        !.signalFrom = IF gotSignal THEN 0 ELSE @,
                        !.owner = IF consumed # 0 /\ consumed = @ THEN 0 ELSE @,
                        !.autoCount = IF gotRom /\ loaded THEN 0 ELSE @]
    IN IF launchedNow
       THEN [p1 EXCEPT !.launched = @ + 1,
                       !.open = @ \cup {p1.launched + 1},
                       !.owner = p1.launched + 1,
                       !.autoCount = IF auto THEN @ + 1 ELSE @]
       ELSE p1

PickerInitWindow ==
    /\ \E launchOk \in BOOLEAN :
          \E r \in {onInitWindow(app, xr, [settings |-> settingsFile.text,
                                            xrFailedStep |-> 2,
                                            defaultRom |-> FALSE, launchOk |-> launchOk,
                                            window |-> "ok"])} :
             /\ app' = r.a
             /\ xr' = r.x
             /\ call' = r.c
             /\ obs' = [obs EXCEPT
                           !.loadedFrom = IF ~app.presentationLoaded_ THEN settingsFile
                                          ELSE @,
                           !.pickers = PickersAfter(@, app, r.a, FALSE, FALSE, FALSE, TRUE)]
    /\ obs'.pickers.launched <= MaxPickers
    /\ UNCHANGED <<metaInput, pendingRom, pickerSignal, threads, settingsFile, geoVars>>

PickerKey ==
    /\ \E key \in {"BUTTON_THUMBL", "BUTTON_THUMBR"}, pressed \in BOOLEAN :
          \E a1 \in {onInput(app, key, pressed, TRUE)} :
             /\ app' = a1
             /\ obs' = [obs EXCEPT
                           !.pickers = PickersAfter(@, app, a1, FALSE, FALSE, FALSE, FALSE)]
    /\ obs'.pickers.launched <= MaxPickers
    /\ UNCHANGED <<xrVars, pendingRom, pickerSignal, threads, settingsFile, geoVars>>

PickerTicks ==
    {[t EXCEPT !.launchOk = launchOk] :
        t \in TickInputs(PollsOver({}, FALSE), PollsOver({}, FALSE), {AllSucceed},
                         {{}}, BOOLEAN, {TRUE}, {FALSE}),
        launchOk \in BOOLEAN}

PickerTick ==
    /\ obs.ticks < MaxTicks
    /\ \E in \in PickerTicks :
          \E take \in {TakePendingRom(pendingRom)} :
          \E r \in {tick(app, xr, take, pickerSignal, obs, in)} :
             /\ app' = r.a
             /\ xr' = r.x
             /\ pendingRom' = IF r.taken THEN take.p ELSE pendingRom
             /\ pickerSignal' = r.signal
             /\ obs' = [r.o EXCEPT
                           !.pickers =
                               IF r.taken
                               THEN PickersAfter(@, app, r.a, take.ret,
                                                 ~take.ret /\ pickerSignal,
                                                 app.coreInitialized /\ in.romLoadOk,
                                                 TRUE)
                               ELSE @]
             /\ call' = r.c
             /\ settingsFile' = saveAll(settingsFile, r.saved, in.saveOk, in.halfUp)
    /\ obs'.pickers.launched <= MaxPickers
    /\ UNCHANGED <<metaInput, threads, geoVars>>

\* The user picks a file in an open picker: the platform calls
\* nativeOnRomSelected with its bytes, or with none.
PickerSelects ==
    /\ \E k \in obs.pickers.open, dataPresent \in BOOLEAN, named \in BOOLEAN :
          /\ pendingRom' = IF dataPresent
                            THEN [bytes |-> Payload(k, named).bytes,
                                  name |-> Payload(k, named).name, ready |-> TRUE]
                            ELSE pendingRom
          /\ obs' = [obs EXCEPT !.pickers.open = @ \ {k},
                                !.pickers.romFrom = IF dataPresent THEN k ELSE @]
    /\ UNCHANGED <<xrVars, app, pickerSignal, threads, settingsFile, geoVars>>

\* The user leaves an open picker without a file: the platform calls
\* nativeOnRomPickerDismissed.
PickerDismisses ==
    /\ \E k \in obs.pickers.open :
          obs' = [obs EXCEPT !.pickers.open = @ \ {k}, !.pickers.signalFrom = k]
    /\ pickerSignal' = TRUE
    /\ UNCHANGED <<xrVars, app, pendingRom, threads, settingsFile, geoVars>>

\* android_main() is entered again, the pickers staying as they are.
PickerRelaunch ==
    /\ app.presentationLoaded_
    /\ app' = AppConstructed
    /\ xr' = XrConstructed
    /\ call' = CallIdle
    /\ \E sameProcess \in BOOLEAN :
          /\ pendingRom' = IF sameProcess THEN pendingRom ELSE PendingEmpty
          /\ pickerSignal' = IF sameProcess THEN pickerSignal ELSE FALSE
          /\ obs' = [ObsIdle EXCEPT
                        !.ticks = obs.ticks,
                        !.pickers = [obs.pickers EXCEPT
                                        !.owner = 0, !.autoCount = 0,
                                        !.romFrom = IF sameProcess THEN @ ELSE 0,
                                        !.signalFrom = IF sameProcess THEN @ ELSE 0]]
    /\ UNCHANGED <<metaInput, settingsFile, threads, geoVars>>

PickerNext ==
    \/ OnCmd({"START", "RESUME"})
    \/ PickerInitWindow
    \/ PickerKey
    \/ PickerTick
    \/ PickerSelects
    \/ PickerDismisses
    \/ PickerRelaunch

SpecPicker == XrInit /\ [][PickerNext]_vars

(***************************************************************************)
(* SpecAudio: the audio pump.  The app is started, resumed and given its   *)
(* window with a default ROM; each tick the emulator queues between no     *)
(* frame and more than two chunks, and the audio device opens the stream   *)
(* as requested, opens it with another sample rate or channel count, or    *)
(* fails at one of the three steps of opening.                             *)
(***************************************************************************)
AudioDevices ==
    {AudioDevice("ok", audioSampleRate, 2),
     AudioDevice("ok", 48000, 2),
     AudioDevice("ok", audioSampleRate, 1),
     AudioDevice("createStreamBuilder", 0, 0),
     AudioDevice("openStream", 0, 0),
     AudioDevice("requestStart", 0, 0)}

AudioTicks ==
    {[t EXCEPT !.audioFrames = n, !.audioDevice = dev] :
        t \in TickInputs(PollsOver({}, FALSE), PollsOver({}, FALSE), {AllSucceed}, {{}},
                         {TRUE}, {TRUE}, {TRUE}),
        n \in 0..((2 * kAudioChunkFrames) + 1),
        dev \in AudioDevices}

AudioNext ==
    \/ OnCmd({"START", "RESUME"})
    \/ OnInitWindow({1}, {TRUE}, {"ok"})
    \/ Tick(AudioTicks)

SpecAudio == XrInit /\ [][AudioNext]_vars

(***************************************************************************)
(* SpecSettings: the settings file across runs of the app.  The file is    *)
(* absent, cut short, holds words where numerals belong, values beyond the *)
(* limits, values of five decimals, or what the app saved; the app is      *)
(* started, resumed and given its window with a default ROM; the player    *)
(* toggles the view mode and adjusts scale and convergence, each save      *)
(* opening the file or failing to; android_main() is entered again.        *)
(***************************************************************************)
SettingsTexts ==
    {<<>>,
     SettingsText(47000, 2000, 2),
     SettingsText(120000, -30000, 1),
     SettingsText(50000, 2000, -1),
     <<Numeral(55558), Numeral(-1234), Numeral(0)>>,
     <<Numeral(55555), Numeral(1235), Numeral(200000)>>,
     <<Numeral(50000), Numeral(2000), Numeral(90000)>>,
     <<Numeral(50000), Numeral(2000)>>,
     <<Numeral(50000), Numeral(2000), Word>>,
     <<Numeral(50000), Word, Numeral(0)>>,
     <<Numeral(50000)>>,
     <<Word, Numeral(50000), Numeral(2000)>>}
SettingsPads == {{}, {"b"}, {"l", "r", "up"}, {"l", "r", "left"}, {"b", "l", "r", "down"}}
SettingsTicks ==
    {[t EXCEPT !.saveOk = ok, !.halfUp = halfUp] :
        t \in TickInputs(PollsOver({"READY"}, FALSE), PollsOver({}, FALSE), {AllSucceed},
                         SettingsPads, {TRUE}, {TRUE}, {TRUE}),
        ok \in {<<TRUE, TRUE>>, <<TRUE, FALSE>>, <<FALSE, FALSE>>},
        halfUp \in BOOLEAN}

SettingsNext ==
    \/ WriteSettings(SettingsTexts)
    \/ OnCmd({"START", "RESUME"})
    \/ OnInitWindow({0}, {TRUE}, {"ok"})
    \/ Tick(SettingsTicks)
    \/ Relaunch

SpecSettings == XrInit /\ [][SettingsNext]_vars

(***************************************************************************)
(* SpecDepth: depth from disparity.  The reconstructor is configured with  *)
(* values at, above and below what setConfig accepts as given, and asked   *)
(* for the depth of disparities on both sides of the threshold.            *)
(***************************************************************************)
DepthConfigs ==
    {[DefaultConfig EXCEPT !.focalLengthPx = focal, !.baselineMeters = baseline,
                           !.disparityBiasPx = bias, !.minDisparityPx = minDisparity,
                           !.nearZ = near, !.farZ = far] :
        focal \in {250000, 0}, baseline \in {64, 0},
        bias \in {0, 500, -500}, minDisparity \in {300, 0, -5},
        near \in {450, 0, 300}, far \in {8500, 0}}

\* Disparities in thousandths of a pixel: whole pixels as read from int8
\* metadata (0, 1, 40, -40, 127, -128) and fractions around the thresholds.
DepthDisparities ==
    {0, 1, 299, 300, 301, 499, 700, 1000, 40000, -40000, 127000, -128000}

DepthNext ==
    \/ SetConfig(DepthConfigs)
    \/ ReconstructDepthMeters(DepthDisparities)

SpecDepth == XrInit /\ [][DepthNext]_vars

(***************************************************************************)
(* SpecMesh: mesh construction.  The reconstructor is given grid steps and *)
(* asked for meshes over sample windows that the guards reject, that give  *)
(* a grid of one column or row, that reach the vertex limit, and that are  *)
(* built.                                                                  *)
(***************************************************************************)
MeshConfigs ==
    {[DefaultConfig EXCEPT !.gridStepX = stepX, !.gridStepY = stepY] :
        stepX \in {1, 2, 0}, stepY \in {1, 2}}

\* A disparity array of n elements whose values differ from place to place.
DisparityPattern(n) == [i \in 1..n |-> ((((i - 1) * 3) % 7) - 3) * 40]

MeshArgs(null, dw, dh, offsetX, sw, sh, uvOffsetX, uvScaleX) ==
    [disparityNull |-> null,
     disparity |-> IF null \/ dw <= 0 \/ dh <= 0 THEN <<>> ELSE DisparityPattern(dw * dh),
     disparityWidth |-> dw, disparityHeight |-> dh, disparityOffsetX |-> offsetX,
     sampleWidth |-> sw, sampleHeight |-> sh, uvOffsetX |-> uvOffsetX, uvScaleX |-> uvScaleX]

\* Windows of every grid size over an 8 x 8 array, windows at, before and
\* beyond the left and right edge of a 4 x 8 array, windows taller than an
\* 8 x 2 array, and single calls with a null pointer, a one-element-wide or
\* one-element-high array, and the uv ranges of the two halves of a frame.
MeshCalls ==
    {MeshArgs(FALSE, 8, 8, 0, sw, sh, 0, 1000) : sw \in {1, 3, 4, 7}, sh \in {1, 2, 4, 5}}
    \cup {MeshArgs(FALSE, 4, 8, offsetX, sw, 2, 0, 1000) :
            offsetX \in {-1, 0, 1}, sw \in {3, 4}}
    \cup {MeshArgs(FALSE, 8, 2, 1, sw, sh, 0, 1000) : sw \in {3, 7}, sh \in {2, 4, 5}}
    \cup {MeshArgs(TRUE, 8, 8, 0, 4, 2, 0, 1000),
          MeshArgs(FALSE, 1, 8, 0, 1, 2, 0, 1000),
          MeshArgs(FALSE, 8, 1, 0, 4, 2, 0, 1000),
          MeshArgs(FALSE, 8, 8, 0, 4, 2, 500, 500),
          MeshArgs(FALSE, 8, 8, 4, 4, 2, 0, 500)}

StrayDisparities == {-128, 127}

MeshNext ==
    \/ SetConfig(MeshConfigs)
    \/ BuildMesh(MeshCalls, StrayDisparities)

SpecMesh == XrInit /\ [][MeshNext]_vars

(***************************************************************************)
(* SpecVip: the mapping evaluator.  It is bound to arrays of width x       *)
(* height elements, some of them the sentinel, with eye regions that fit   *)
(* the frame, overhang it to the right or below, or are empty, and to null *)
(* pointers; it is asked for coordinates inside and around the eye region. *)
(***************************************************************************)
\* Source coordinates of a width x height frame: the sentinel at the given
\* index and values that differ from place to place elsewhere.
SourcePattern(n, shift, hole) ==
    [i \in 1..n |-> IF i - 1 = hole THEN kInvalidSourceCoord ELSE ((i - 1) * 3) + shift]

VipArgs(nullX, nullY, width, height, eyeWidth, eyeHeight) ==
    [sourceXNull |-> nullX, sourceYNull |-> nullY,
     sourceX |-> IF nullX \/ width <= 0 \/ height <= 0 THEN <<>>
                 ELSE SourcePattern(width * height, 0, 1),
     sourceY |-> IF nullY \/ width <= 0 \/ height <= 0 THEN <<>>
                 ELSE SourcePattern(width * height, -7, 2),
     width |-> width, height |-> height, eyeWidth |-> eyeWidth, eyeHeight |-> eyeHeight]

VipBinds ==
    {VipArgs(FALSE, FALSE, width, height, 2, eyeHeight) :
        width \in {4, 3, 2, 0}, height \in {2, 0}, eyeHeight \in {2, 3}}
    \cup {VipArgs(TRUE, FALSE, 4, 2, 2, 2), VipArgs(FALSE, TRUE, 4, 2, 2, 2),
          VipArgs(FALSE, FALSE, 4, 2, 0, 2), VipArgs(FALSE, FALSE, 4, 2, 2, -1)}

VipEyes == {-1, 0, 1, 2}
VipXs == {-1, 0, 1, 2}
VipYs == {-1, 0, 1, 2, 3}
StraySources == {kInvalidSourceCoord, 5}

VipNext ==
    \/ Bind(VipBinds)
    \/ EvaluateEye(VipEyes, VipXs, VipYs, StraySources)

SpecVip == XrInit /\ [][VipNext]_vars

(***************************************************************************)
(* SpecStereo: both mesh constructions.  The evaluator is bound to frames  *)
(* of two eyes whose right eye sees everything shifted, the reconstructor  *)
(* is given grid steps, and meshes are built from the mapping and from     *)
(* disparity arrays, over grids below, at and above the vertex limit.      *)
(***************************************************************************)
\* sourceX of a frame of two eyes side by side: the eye-local column, moved
\* left by shift in the right eye, with the sentinel at index hole.
ParallaxX(eyeWidth, height, shift, hole) ==
    [i \in 1..(2 * eyeWidth * height) |->
        LET x == (i - 1) % (2 * eyeWidth)
        IN IF i - 1 = hole THEN kInvalidSourceCoord
           ELSE IF x < eyeWidth THEN x ELSE (x - eyeWidth) - shift]

\* sourceY of the same frame: the row.
RowY(eyeWidth, height) ==
    [i \in 1..(2 * eyeWidth * height) |-> (i - 1) \div (2 * eyeWidth)]

StereoArgs(eyeWidth, eyeHeight, shift, hole) ==
    [sourceXNull |-> FALSE, sourceYNull |-> FALSE,
     sourceX |-> ParallaxX(eyeWidth, eyeHeight, shift, hole),
     sourceY |-> RowY(eyeWidth, eyeHeight),
     width |-> 2 * eyeWidth, height |-> eyeHeight,
     eyeWidth |-> eyeWidth, eyeHeight |-> eyeHeight]

StereoBinds ==
    {StereoArgs(size[1], size[2], 2, 1) :
        size \in {<<2, 2>>, <<3, 5>>, <<5, 4>>, <<1, 4>>}}
    \cup {VipArgs(TRUE, FALSE, 4, 2, 2, 2), VipArgs(FALSE, FALSE, 3, 2, 2, 2)}

\* Grid steps of one and two columns, and a disparity bias of 5 px, more
\* than any disparity the bound frames show.
StereoConfigs ==
    {[DefaultConfig EXCEPT !.gridStepX = stepX, !.gridStepY = 1] : stepX \in {1, 2}}
    \cup {[DefaultConfig EXCEPT !.gridStepX = 1, !.gridStepY = 1,
                                !.disparityBiasPx = 5000]}

StereoMeshCalls ==
    {MeshArgs(FALSE, 8, 8, 0, sw, 4, 0, 1000) : sw \in {3, 4}}

StereoNext ==
    \/ Bind(StereoBinds)
    \/ SetConfig(StereoConfigs)
    \/ BuildStereoMeshes
    \/ BuildMesh(StereoMeshCalls, StrayDisparities)

SpecStereo == XrInit /\ [][StereoNext]_vars

(***************************************************************************)
(* SpecMailbox: the pending-ROM slot between the platform thread           *)
(* (nativeOnRomSelected) and the app's thread (the tick's TakePendingRom), *)
(* statement by statement.  The app is started, resumed and given its      *)
(* window on a device where the XR renderer fails to initialize and no     *)
(* default ROM is found.                                                   *)
(***************************************************************************)
\* A variant of lockAvailable in which the mutex never makes a thread wait.
lockNeverWaits(mutex) == TRUE

\* std::scoped_lock lock(gPendingRom.mutex) returns once the mutex is free.
lockAvailable(mutex) == mutex = "free"

\* nativeOnRomSelected up to its lock: a null or empty array returns at once.
RomSelectedCall ==
    /\ threads.platform.pc = "idle"
    /\ threads.delivered < MaxDeliveries
    /\ \E dataPresent \in BOOLEAN, named \in BOOLEAN :
          IF ~dataPresent THEN UNCHANGED threads
          ELSE LET payload == Payload(threads.delivered + 1, named)
               IN threads' = [threads EXCEPT
                                 !.delivered = @ + 1,
                                 !.platform = [pc |-> "lock", bytes |-> payload.bytes,
                                               name |-> payload.name]]
    /\ UNCHANGED <<xrVars, appVars, geoVars>>

RomSelectedLock ==
    /\ threads.platform.pc = "lock"
    /\ lockAvailable(threads.mutex)
    /\ threads' = [threads EXCEPT !.mutex = "platform", !.platform.pc = "bytes"]
    /\ UNCHANGED <<xrVars, appVars, geoVars>>

\* gPendingRom.bytes = std::move(bytes)
RomSelectedBytes ==
    /\ threads.platform.pc = "bytes"
    /\ pendingRom' = [pendingRom EXCEPT !.bytes = threads.platform.bytes]
    /\ threads' = [threads EXCEPT !.platform.pc = "name", !.platform.bytes = <<>>]
    /\ UNCHANGED <<xrVars, app, obs, pickerSignal, settingsFile, geoVars>>

\* gPendingRom.name = std::move(name)
RomSelectedName ==
    /\ threads.platform.pc = "name"
    /\ pendingRom' = [pendingRom EXCEPT !.name = threads.platform.name]
    /\ threads' = [threads EXCEPT !.platform.pc = "ready", !.platform.name = <<>>]
    /\ UNCHANGED <<xrVars, app, obs, pickerSignal, settingsFile, geoVars>>

\* gPendingRom.ready = true, and the lock is released on return.
RomSelectedReady ==
    /\ threads.platform.pc = "ready"
    /\ pendingRom' = [pendingRom EXCEPT !.ready = TRUE]
    /\ threads' = [threads EXCEPT
                      !.platform.pc = "idle",
                      !.mutex = "free",
                      !.latest = [bytes |-> pendingRom.bytes, name |-> pendingRom.name]]
    /\ UNCHANGED <<xrVars, app, obs, pickerSignal, settingsFile, geoVars>>

\* The tick up to the lock of its TakePendingRom call.
TakeLock ==
    /\ threads.tick.pc = "idle"
    /\ obs.ticks < MaxTicks
    /\ app.running_ /\ app.resumed_ /\ ~xr.initialized_
    /\ lockAvailable(threads.mutex)
    /\ threads' = [threads EXCEPT !.mutex = "tick", !.tick.pc = "check"]
    /\ UNCHANGED <<xrVars, appVars, geoVars>>

\* if (!gPendingRom.ready || gPendingRom.bytes.empty()) return false;
TakeCheck ==
    /\ threads.tick.pc = "check"
    /\ threads' = IF ~pendingRom.ready \/ pendingRom.bytes = <<>>
                  THEN [threads EXCEPT
                           !.tick = [pc |-> "finish", outBytes |-> <<>>,
                                     outName |-> <<>>, ret |-> FALSE],
                           !.mutex = "free"]
                  ELSE [threads EXCEPT !.tick.pc = "moveBytes"]
    /\ UNCHANGED <<xrVars, appVars, geoVars>>

\* outBytes = std::move(gPendingRom.bytes)
TakeMoveBytes ==
    /\ threads.tick.pc = "moveBytes"
    /\ threads' = [threads EXCEPT !.tick.pc = "moveName",
                                  !.tick.outBytes = pendingRom.bytes]
    /\ pendingRom' = [pendingRom EXCEPT !.bytes = <<>>]
    /\ UNCHANGED <<xrVars, app, obs, pickerSignal, settingsFile, geoVars>>

\* outName = std::move(gPendingRom.name)
TakeMoveName ==
    /\ threads.tick.pc = "moveName"
    /\ threads' = [threads EXCEPT !.tick.pc = "clear",
                                  !.tick.outName = pendingRom.name]
    /\ pendingRom' = [pendingRom EXCEPT !.name = <<>>]
    /\ UNCHANGED <<xrVars, app, obs, pickerSignal, settingsFile, geoVars>>

\* ready = false, both cleared, return true; the lock is released on return.
TakeClear ==
    /\ threads.tick.pc = "clear"
    /\ pendingRom' = PendingEmpty
    /\ threads' = [threads EXCEPT
                      !.tick.pc = "finish", !.tick.ret = TRUE,
                      !.mutex = "free",
                      !.taken = Append(@, [got |-> [bytes |-> threads.tick.outBytes,
                                                    name |-> threads.tick.outName],
                                           latest |-> threads.latest])]
    /\ UNCHANGED <<xrVars, app, obs, pickerSignal, settingsFile, geoVars>>

\* The rest of the tick, with what TakePendingRom returned.
TickFinish(ins) ==
    /\ threads.tick.pc = "finish"
    /\ \E in \in ins :
          \E r \in {tick(app, xr,
                         [p |-> pendingRom, ret |-> threads.tick.ret,
                          bytes |-> threads.tick.outBytes, name |-> threads.tick.outName],
                         pickerSignal, obs, in)} :
             /\ app' = r.a
             /\ xr' = r.x
             /\ pickerSignal' = r.signal
             /\ obs' = r.o
             /\ call' = r.c
             /\ settingsFile' = saveAll(settingsFile, r.saved, in.saveOk, in.halfUp)
    /\ threads' = [threads EXCEPT !.tick = ThreadsIdle.tick]
    /\ UNCHANGED <<metaInput, pendingRom, geoVars>>

MailboxTicks ==
    TickInputs(PollsOver({}, FALSE), PollsOver({}, FALSE), {AllSucceed},
               {{}}, BOOLEAN, {TRUE}, {FALSE})

MailboxNext ==
    \/ OnCmd({"START", "RESUME"})
    \/ OnInitWindow({2}, {FALSE}, {"ok"})
    \/ NativeOnRomPickerDismissed
    \/ RomSelectedCall
    \/ RomSelectedLock
    \/ RomSelectedBytes
    \/ RomSelectedName
    \/ RomSelectedReady
    \/ TakeLock
    \/ TakeCheck
    \/ TakeMoveBytes
    \/ TakeMoveName
    \/ TakeClear
    \/ TickFinish(MailboxTicks)

SpecMailbox == XrInit /\ [][MailboxNext]_vars

(***************************************************************************)
(* Claims checked under SpecXrPath                                         *)
(***************************************************************************)
\* C1: every eye that renderFrame draws takes exactly one path: the layer path
\* iff depth mode is on, metadata is ready with the frame's width and height,
\* layer data is ready, the frame is side-by-side, the overlay is hidden and
\* the eye has at least one layer; otherwise the fallback path if depth mode
\* is on; otherwise the classic path.  At most one of the three debug flags is
\* set, and after a frame that reached the eye loop the flag set is the one
\* of eye 0's path (none when eye 0 drew nothing).
C1_OnePathPerEye ==
    LET d == xr.renderDebugState_
        layerConditions(e) ==
            /\ xr.depthMetadataEnabled_
            /\ xr.metadataReady_
            /\ xr.metadataWidth_ = xr.frameWidth_
            /\ xr.metadataHeight_ = xr.frameHeight_
            /\ xr.layerDataReady_
            /\ xr.sideBySideFrame_
            /\ ~xr.overlayVisible_
            /\ Len(xr.eyeLayers_[e]) >= 1
        expected(e) ==
            IF layerConditions(e) THEN "layer"
            ELSE IF xr.depthMetadataEnabled_ THEN "fallback" ELSE "classic"
        flagsSet == {f \in {"layer", "fallback", "classic"} :
                        \/ f = "layer" /\ d.usedLayerRendering
                        \/ f = "fallback" /\ d.usedDepthFallback
                        \/ f = "classic" /\ d.usedClassic}
    IN /\ Cardinality(flagsSet) <= 1
       /\ call.op = "renderFrame" =>
            /\ \A e \in EyeIndices :
                  call.eyePath[e] # "none" => call.eyePath[e] = expected(e)
            /\ call.located =>
                  flagsSet = {call.eyePath[0]} \ {"none"}

\* A frame whose left eye took the fallback path while its right eye took the
\* layer path (the metadata gave only the right eye a layer).
C1_Witness ==
    /\ call.op = "renderFrame"
    /\ call.eyePath[0] = "fallback"
    /\ call.eyePath[1] = "layer"
    /\ xr.renderDebugState_.usedDepthFallback

(***************************************************************************)
(* Claims checked under SpecXrAnchor                                       *)
(***************************************************************************)
\* C2: once the head origin is captured, it stays the same, and every later
\* renderFrame uses it as the world anchor, until an explicit reset: entering
\* anchored or depth mode, resetWorldAnchor, a session begin, or shutdown
\* (also the shutdown initialize starts with).
C2_OriginKeptUntilReset ==
    [][LET enteringMode ==
               \/ xr'.depthMetadataEnabled_ /\ ~xr.depthMetadataEnabled_
               \/ xr'.worldAnchoredEnabled_ /\ ~xr.worldAnchoredEnabled_
           explicitReset ==
               \/ enteringMode
               \/ ResetWorldAnchor
               \/ call'.sessionBegan
               \/ Shutdown
               \/ call'.op = "initialize"
       IN (xr.headOriginSet_ /\ ~explicitReset) =>
              /\ xr'.headOriginSet_
              /\ xr'.headOrigin_ = xr.headOrigin_
              /\ (call'.op = "renderFrame" /\ call'.located) =>
                     call'.worldAnchor = xr.headOrigin_]_vars

\* A frame rendered with an origin captured by an earlier frame: the head has
\* moved since, and the anchor is not where the head is now.
C2_Witness ==
    /\ call.op = "renderFrame"
    /\ call.located
    /\ xr.headOriginSet_
    /\ call.worldAnchor = xr.headOrigin_
    /\ call.worldAnchor # call.head

C10_FailedInitializeLeavesError ==
    (call.op = "initialize" /\ ~call.ret) =>
        /\ ~xr.initialized_
        /\ xr.lastError_ # NoError

AdjustButtons == {"up", "down", "left", "right", "a"}

\* Calibration was active in the last tick that ran the emulator: the info
\* window shown and both L and R held in the merged input.
CalibrationActive(o) == o.infoShown /\ {"l", "r"} \subseteq o.merged

\* The step is a tick that ran the emulator.
EmulatedTick == obs'.ticks = obs.ticks + 1 /\ obs'.emulated

\* C4: in every tick in which calibration is active, the state handed to
\* setInputState has left, right, up, down, A, B, L and R all false, and start
\* and select as they are in the merged input.
C4_CalibrationInputConsumed ==
    (obs.emulated /\ CalibrationActive(obs)) =>
        /\ obs.coreInput \cap {"left", "right", "up", "down", "a", "b", "l", "r"} = {}
        /\ obs.coreInput \cap {"start", "select"} = obs.merged \cap {"start", "select"}

\* Calibration is active with up and select held, and only select reaches the
\* emulator.
C4_Witness ==
    /\ obs.emulated /\ CalibrationActive(obs)
    /\ {"up", "select"} \subseteq obs.merged
    /\ obs.coreInput = {"select"}

\* C5 as stated: a calibration adjustment is applied in a tick only when its
\* button goes from not held to held while the L+R modifier was already active
\* on the previous tick.
C5_AdjustmentOnlyOnEdgeUnderActiveModifier ==
    [][EmulatedTick =>
          \A d \in obs'.adjusted :
              /\ obs.emulated /\ CalibrationActive(obs)
              /\ d \notin obs.merged /\ d \in obs'.merged]_vars

\* C6: with the info window shown and L+R held in the previous tick and in
\* this one, a press of up alone raises screenScale_ by one step, clamped to
\* the maximum; of down alone lowers it by one step, clamped to the minimum;
\* of right or left alone moves stereoConvergence_ by one step, clamped; of A
\* alone resets both to the defaults; and with no adjustment button newly
\* pressed, held ones included, both stay as they are.
C6_OneStepPerPress ==
    [][(EmulatedTick /\ obs.emulated /\ CalibrationActive(obs) /\ CalibrationActive(obs'))
          => LET pressed == {d \in AdjustButtons : d \in obs'.merged /\ d \notin obs.merged}
                 scale == app.screenScale_
                 convergence == app.stereoConvergence_
             IN /\ pressed = {"up"} =>
                      /\ app'.screenScale_ = Clamp(scale + 3000, 20000, 100000)
                      /\ app'.stereoConvergence_ = convergence
                /\ pressed = {"down"} =>
                      /\ app'.screenScale_ = Clamp(scale - 3000, 20000, 100000)
                      /\ app'.stereoConvergence_ = convergence
                /\ pressed = {"right"} =>
                      /\ app'.screenScale_ = scale
                      /\ app'.stereoConvergence_ = Clamp(convergence + 400, -8000, 8000)
                /\ pressed = {"left"} =>
                      /\ app'.screenScale_ = scale
                      /\ app'.stereoConvergence_ = Clamp(convergence - 400, -8000, 8000)
                /\ pressed = {"a"} =>
                      /\ app'.screenScale_ = 62000
                      /\ app'.stereoConvergence_ = -4000
                /\ pressed = {} =>
                      /\ app'.screenScale_ = scale
                      /\ app'.stereoConvergence_ = convergence]_vars

\* Up has been held with L+R over two ticks, with the scale one step above
\* the default.
C6_Witness ==
    /\ obs.emulated /\ CalibrationActive(obs)
    /\ "up" \in obs.merged /\ obs.adjusted = {}
    /\ app.screenScale_ = kDefaultScreenScale + kScreenScaleStep

(***************************************************************************)
(* Claims checked under SpecMailbox                                        *)
(***************************************************************************)
\* The payloads the takes have returned, in order.
TakenPayloads == [i \in DOMAIN threads.taken |-> threads.taken[i].got]

\* C7: under every interleaving of nativeOnRomSelected with ticks, (1) no
\* payload is returned by TakePendingRom twice; (2) whenever neither thread is
\* inside its critical section the slot holds the last delivery completed, if
\* no take has returned it yet, and is empty otherwise; (3) every take returns
\* the bytes and the name of the last delivery completed before it, so of two
\* deliveries before a take only the second is returned; and the ROM loaded
\* from the picker is a payload so taken.
C7_MailboxDeliversLatestAtMostOnce ==
    /\ \A i, j \in DOMAIN threads.taken :
          i # j => TakenPayloads[i].bytes # TakenPayloads[j].bytes
    /\ threads.mutex = "free" =>
          pendingRom =
             IF /\ threads.latest # NoPayload
                /\ \A i \in DOMAIN threads.taken : TakenPayloads[i] # threads.latest
             THEN [bytes |-> threads.latest.bytes, name |-> threads.latest.name,
                   ready |-> TRUE]
             ELSE PendingEmpty
    /\ \A i \in DOMAIN threads.taken : threads.taken[i].got = threads.taken[i].latest
    /\ app.loadedRom # <<>> =>
          \E i \in DOMAIN threads.taken :
              app.loadedRom = <<TakenPayloads[i].bytes, TakenPayloads[i].name>>

\* Two deliveries were completed before a take, the take returned the second,
\* its ROM is loaded and the slot is empty.
C7_Witness ==
    /\ threads.delivered = 2
    /\ Len(threads.taken) = 1
    /\ threads.taken[1].got = Payload(2, TRUE)
    /\ app.loadedRom = <<Payload(2, TRUE).bytes, Payload(2, TRUE).name>>
    /\ threads.tick.pc = "idle" /\ threads.platform.pc = "idle"
    /\ pendingRom = PendingEmpty

(***************************************************************************)
(* C11: presenting falls back to the flat renderer                         *)
(***************************************************************************)
\* C11: in every tick of the running, resumed app that has a frame to present
\* (the standby frame or a game frame) while the platform's window is usable,
\* if the XR renderer is not initialized or its renderFrame returned false,
\* the flat renderer presents that frame in the same tick.
C11_FlatFallbackPresentsFrame ==
    [][(/\ obs'.ticks # obs.ticks
        /\ app.window = "ok"
        /\ obs'.frame # <<>>
        /\ ~obs'.xrRendered)
       => obs'.flatFrame = obs'.frame]_vars

(***************************************************************************)
(* C12: the merged input                                                   *)
(***************************************************************************)
\* C12: in every tick that runs the emulator, each of the ten buttons is held
\* in the merged input handed to the calibration layer exactly when it is held
\* in the physical input state (input_) or in the VR controller state.
C12_MergedIsOrOfSources ==
    obs.emulated =>
        \A b \in Buttons :
            (b \in obs.merged) <=> (b \in obs.physical \/ b \in obs.xrButtons)

\* An emulated tick with a button held on the keys only, one on the controller
\* only and one on both.
C12_Witness ==
    /\ obs.emulated
    /\ obs.physical \ obs.xrButtons # {}
    /\ obs.xrButtons \ obs.physical # {}
    /\ obs.physical \cap obs.xrButtons # {}

(***************************************************************************)
(* C13: the walkthrough pose stays within its limits                       *)
(***************************************************************************)
WithinWalkLimits(offsetX, offsetY, offsetZ, pitch) ==
    /\ \A v \in {offsetX, offsetY, offsetZ} : -kWalkOffsetLimit <= v /\ v <= kWalkOffsetLimit
    /\ -kWalkPitchLimit <= pitch /\ pitch <= kWalkPitchLimit

\* C13: in every state, each component of the walkthrough offset lies within
\* [-30, 30] and the walkthrough pitch within [-1.2, 1.2], in the App
\* (walkOffsetX_, walkOffsetY_, walkOffsetZ_, walkPitch_) and in the renderer
\* (walkThroughOffset_, walkThroughPitch_).
C13_WalkthroughWithinLimits ==
    /\ WithinWalkLimits(app.walkOffsetX_, app.walkOffsetY_, app.walkOffsetZ_, app.walkPitch_)
    /\ WithinWalkLimits(xr.walkThroughOffset_[1], xr.walkThroughOffset_[2],
                        xr.walkThroughOffset_[3], xr.walkThroughPitch_)

\* A tick has moved the App's pose onto the limit of an offset and of the
\* pitch and handed it to the renderer.
C13_Witness ==
    /\ obs.ticks > 0
    /\ app.walkOffsetY_ = kWalkOffsetLimit
    /\ app.walkPitch_ = kWalkPitchLimit
    /\ xr.walkThroughOffset_ = <<app.walkOffsetX_, app.walkOffsetY_, app.walkOffsetZ_>>
    /\ xr.walkThroughPitch_ = app.walkPitch_

(***************************************************************************)
(* C14: scale and convergence stay within their limits                     *)
(***************************************************************************)
WithinPresentationLimits(screenScale, stereoConvergence) ==
    /\ kMinScreenScale <= screenScale /\ screenScale <= kMaxScreenScale
    /\ kMinStereoConvergence <= stereoConvergence
    /\ stereoConvergence <= kMaxStereoConvergence

\* C14: in every state the screen scale lies within [0.20, 1.00] and the
\* stereo convergence within [-0.08, 0.08], in the App (screenScale_,
\* stereoConvergence_) and in the renderer, whatever calibration adjustments,
\* resets, settings loads and setPresentationConfig calls came before.
C14_PresentationWithinLimits ==
    /\ WithinPresentationLimits(app.screenScale_, app.stereoConvergence_)
    /\ WithinPresentationLimits(xr.screenScale_, xr.stereoConvergence_)

\* Settings beyond both limits were loaded and clamped, and an adjustment
\* against the upper scale limit was applied and handed to the renderer.
C14_Witness ==
    /\ obs.emulated
    /\ "up" \in obs.adjusted
    /\ app.screenScale_ = kMaxScreenScale
    /\ xr.screenScale_ = kMaxScreenScale
    /\ app.stereoConvergence_ = kMinStereoConvergence
    /\ xr.stereoConvergence_ = kMinStereoConvergence

(***************************************************************************)
(* C15, C16: reconstructDepthMeters                                        *)
(***************************************************************************)
\* C15: whenever reconstructDepthMeters is called with a disparity d for which
\* |d| - disparityBiasPx is below minDisparityPx, under the default config or
\* any config setConfig has stored, it returns exactly farZ.
C15_BelowThresholdIsFarZ ==
    (/\ recon.op = "reconstructDepthMeters"
     /\ Abs(recon.disparityPx) - recon.config_.disparityBiasPx
            < recon.config_.minDisparityPx)
    => recon.depth = Whole(recon.config_.farZ)

\* A call below the threshold only because of the bias, with a config whose
\* quotient for |d| alone would not clamp to farZ.
C15_Witness ==
    /\ recon.op = "reconstructDepthMeters"
    /\ recon.disparityPx = 700
    /\ recon.config_.disparityBiasPx = 500
    /\ recon.config_.minDisparityPx = 300
    /\ recon.config_.focalLengthPx = 1000
    /\ recon.depth = Whole(recon.config_.farZ)

\* C16: whenever reconstructDepthMeters is called with a disparity d for which
\* |d| - disparityBiasPx is at least minDisparityPx, it returns
\* focalLengthPx * baselineMeters / (|d| - disparityBiasPx) clamped to
\* [nearZ, farZ], so the result lies in [nearZ, farZ]; with focal length 250,
\* baseline 0.064, bias 0 and minimum disparity 0.3 a disparity of 40 gives
\* 0.4 when nearZ <= 0.4 <= farZ and nearZ when nearZ > 0.4 (0.45 with the
\* default config).
C16_DepthIsClampedQuotient ==
    LET config == recon.config_
        effective == Abs(recon.disparityPx) - config.disparityBiasPx
        product == config.focalLengthPx * config.baselineMeters
        expected == IF product < config.nearZ * effective THEN Whole(config.nearZ)
                    ELSE IF product > config.farZ * effective THEN Whole(config.farZ)
                    ELSE [num |-> product, den |-> effective]
    IN (recon.op = "reconstructDepthMeters" /\ effective >= config.minDisparityPx)
       => /\ recon.depth = expected
          /\ config.nearZ * recon.depth.den <= recon.depth.num
          /\ recon.depth.num <= config.farZ * recon.depth.den
          /\ (/\ config.focalLengthPx = 250000 /\ config.baselineMeters = 64
              /\ config.disparityBiasPx = 0 /\ config.minDisparityPx = 300
              /\ recon.disparityPx = 40000)
             => /\ (config.nearZ <= 400 /\ 400 <= config.farZ)
                      => SameDepth(recon.depth, Whole(400))
                /\ config.nearZ > 400 => recon.depth = Whole(config.nearZ)
                /\ config = DefaultConfig => recon.depth = Whole(450)

\* The default config and a disparity of 40: the quotient 0.4 raised to 0.45.
C16_Witness ==
    /\ recon.op = "reconstructDepthMeters"
    /\ recon.config_ = DefaultConfig
    /\ recon.disparityPx = 40000
    /\ recon.depth = Whole(450)

(***************************************************************************)
(* C17, C18: buildMesh                                                     *)
(***************************************************************************)
\* cols and rows as the claims state them, from the arguments and the grid
\* steps of the call, and the conditions under which the call must fail.
MeshCols == ((mesh.in.sampleWidth - 1) \div mesh.config.gridStepX) + 1
MeshRows == ((mesh.in.sampleHeight - 1) \div mesh.config.gridStepY) + 1
MeshMustFail ==
    \/ mesh.in.disparityNull
    \/ mesh.in.disparityWidth <= 1 \/ mesh.in.disparityHeight <= 1
    \/ mesh.in.sampleWidth <= 1 \/ mesh.in.sampleHeight <= 1
    \/ mesh.in.disparityOffsetX < 0
    \/ mesh.in.disparityOffsetX + mesh.in.sampleWidth > mesh.in.disparityWidth
    \/ MeshCols <= 1 \/ MeshRows <= 1
    \/ MeshCols * MeshRows >= VertexLimit

\* C17: whenever buildMesh has returned true, the output holds exactly
\* cols * rows vertices of 5 floats each and exactly 6 * (cols - 1) * (rows - 1)
\* indices, with cols = ((sampleWidth - 1) / gridStepX) + 1 and
\* rows = ((sampleHeight - 1) / gridStepY) + 1, and gridColumns and gridRows
\* report cols and rows.
C17_MeshCounts ==
    (mesh.op = "buildMesh" /\ mesh.returned /\ mesh.ret)
    => /\ Len(mesh.out.vertices) = MeshCols * MeshRows * 5
       /\ Len(mesh.out.indices) = 6 * (MeshCols - 1) * (MeshRows - 1)
       /\ mesh.out.gridColumns = MeshCols
       /\ mesh.out.gridRows = MeshRows

\* A 7 x 2 window with steps 2 x 1: a grid of 4 x 2 whose last column is
\* short of a full step.
C17_Witness ==
    /\ mesh.op = "buildMesh" /\ mesh.returned /\ mesh.ret
    /\ mesh.in.sampleWidth = 7 /\ mesh.in.sampleHeight = 2
    /\ mesh.config.gridStepX = 2 /\ mesh.config.gridStepY = 1
    /\ Len(mesh.out.vertices) = 40
    /\ Len(mesh.out.indices) = 18

\* C18: whenever buildMesh is called with a null disparity pointer, a
\* disparity or sample dimension of at most 1, a negative disparityOffsetX,
\* disparityOffsetX + sampleWidth above disparityWidth, a grid of at most one
\* column or row, or cols * rows at or above the vertex limit, it returns
\* false and leaves the output without vertices and indices and not valid.
C18_RejectedLeavesEmpty ==
    (mesh.op = "buildMesh" /\ MeshMustFail)
    => /\ mesh.returned
       /\ ~mesh.ret
       /\ mesh.out.vertices = <<>>
       /\ mesh.out.indices = <<>>
       /\ ~mesh.out.valid

\* A grid of exactly the vertex limit, with every other argument acceptable,
\* has been refused.
C18_Witness ==
    /\ mesh.op = "buildMesh"
    /\ ~meshArgsRejected(mesh.in)
    /\ MeshCols > 1 /\ MeshRows > 1
    /\ MeshCols * MeshRows = VertexLimit
    /\ mesh.returned /\ ~mesh.ret /\ mesh.out = EmptyMesh

(***************************************************************************)
(* C20: evaluateEye                                                        *)
(***************************************************************************)
\* The full-frame pixel of the last evaluateEye call and the conditions under
\* which the claim has it return an invalid sample.
VipScreenX == vip.x + (vip.eye * vip.eyeWidth_)
VipIndex == (vip.y * vip.width_) + VipScreenX
VipValidlyBound ==
    /\ ~vip.sourceXNull /\ ~vip.sourceYNull
    /\ vip.width_ > 0 /\ vip.height_ > 0 /\ vip.eyeWidth_ > 0 /\ vip.eyeHeight_ > 0
VipOutsideEye ==
    \/ vip.eye \notin {0, 1}
    \/ vip.x \notin 0..(vip.eyeWidth_ - 1)
    \/ vip.y \notin 0..(vip.eyeHeight_ - 1)
VipOutsideFrame ==
    \/ VipScreenX \notin 0..(vip.width_ - 1)
    \/ vip.y \notin 0..(vip.height_ - 1)
VipMustBeInvalid ==
    \/ ~VipValidlyBound
    \/ VipOutsideEye
    \/ VipOutsideFrame
    \/ vip.sourceX_[VipIndex + 1] = kInvalidSourceCoord
    \/ vip.sourceY_[VipIndex + 1] = kInvalidSourceCoord

\* C20: whenever evaluateEye has been called, its sample is invalid if the
\* evaluator is not validly bound, eye is not 0 or 1, (x, y) is outside
\* [0, eyeWidth) x [0, eyeHeight), the full-frame coordinate
\* x + eye * eyeWidth or y is outside the bound width or height, or either
\* source coordinate stored at that pixel is the sentinel -32768; otherwise
\* it is valid and carries the stored (sx, sy); and every index it read lies
\* inside the width x height arrays.
C20_EvaluateEyeValidity ==
    vip.op = "evaluateEye"
    => /\ VipMustBeInvalid => ~vip.sample.valid
       /\ ~VipMustBeInvalid
            => /\ vip.sample.valid
               /\ vip.sample.sx = vip.sourceX_[VipIndex + 1]
               /\ vip.sample.sy = vip.sourceY_[VipIndex + 1]
       /\ vip.reads \subseteq 0..((vip.width_ * vip.height_) - 1)

\* The right eye's pixel (1, 1) of a 4 x 2 frame has been read and returned.
C20_Witness ==
    /\ vip.op = "evaluateEye"
    /\ vip.eye = 1 /\ vip.x = 1 /\ vip.y = 1
    /\ vip.width_ = 4 /\ vip.height_ = 2 /\ vip.eyeWidth_ = 2
    /\ vip.sample = [sx |-> 21, sy |-> 14, valid |-> TRUE]
    /\ vip.reads = {7}

\* The bottom row of an eye region taller than the frame has been refused
\* without a read.
C20_WitnessBelowFrame ==
    /\ vip.op = "evaluateEye"
    /\ vip.valid_ /\ ~VipOutsideEye
    /\ vip.y >= vip.height_
    /\ ~vip.sample.valid /\ vip.reads = {}

(***************************************************************************)
(* C19: meshes reported valid                                              *)
(***************************************************************************)
\* The meshes the last construction handed back.
MeshesBuilt ==
    IF mesh.op = "buildMesh" THEN {mesh.out}
    ELSE IF mesh.op = "buildStereoMeshes" THEN {mesh.outMeshes[1], mesh.outMeshes[2]}
    ELSE {}

\* C19: every mesh that buildMesh or buildStereoMeshes has handed back as
\* valid has vertices and indices, fewer vertices than the vertex limit
\* (65535 in the program), and only indices below cols * rows; and a
\* construction over a grid of the limit or more vertices has failed.
C19_ValidMeshWithinIndexRange ==
    /\ \A built \in MeshesBuilt :
          built.valid
          => /\ built.vertices # <<>>
             /\ built.indices # <<>>
             /\ Len(built.vertices) < VertexLimit * 5
             /\ \A i \in 1..Len(built.indices) :
                    /\ built.indices[i] < built.gridColumns * built.gridRows
                    /\ built.indices[i] * 5 < Len(built.vertices)
    /\ (/\ mesh.op \in {"buildMesh", "buildStereoMeshes"}
        /\ mesh.in.sampleWidth > 1 /\ mesh.in.sampleHeight > 1
        /\ MeshCols * MeshRows >= VertexLimit)
       => (mesh.returned /\ ~mesh.ret)

(***************************************************************************)
(* C21: buildStereoMeshes refusals                                         *)
(***************************************************************************)
\* The evaluator is not stereo-ready: not validly bound, or bound to a frame
\* narrower than two eyes.
VipNotStereoReady == ~VipValidlyBound \/ vip.width_ < 2 * vip.eyeWidth_

\* The grid buildStereoMeshes would lay over the eye has at most one column
\* or row.
StereoGridCollapsed ==
    \/ ((vip.eyeWidth_ - 1) \div Max(1, recon.config_.gridStepX)) + 1 <= 1
    \/ ((vip.eyeHeight_ - 1) \div Max(1, recon.config_.gridStepY)) + 1 <= 1

\* C21: every call of buildStereoMeshes made while the evaluator is not
\* stereo-ready, or while the grid has at most one column or row, returns
\* false and leaves both output meshes empty.
C21_StereoRefusalLeavesEmpty ==
    [][(/\ mesh' # mesh
        /\ mesh'.op = "buildStereoMeshes"
        /\ (VipNotStereoReady \/ StereoGridCollapsed))
       => /\ ~mesh'.ret
          /\ mesh'.outMeshes = <<EmptyMesh, EmptyMesh>>]_vars

\* A call on an evaluator validly bound to a frame narrower than two eyes,
\* whose grid would have had two columns and rows, has been refused.
C21_Witness ==
    /\ mesh.op = "buildStereoMeshes"
    /\ VipValidlyBound /\ vip.width_ < 2 * vip.eyeWidth_
    /\ ~StereoGridCollapsed
    /\ ~mesh.ret
    /\ mesh.outMeshes = <<EmptyMesh, EmptyMesh>>

(***************************************************************************)
(* Claims checked under SpecSettings                                       *)
(***************************************************************************)
\* A step in which loadPresentationSettings runs.
LoadsSettings == ~app.presentationLoaded_ /\ app'.presentationLoaded_

\* The settings the claims expect of a file whose first two values parse.
ClampedScale(text) == Clamp(text[1].value, kMinScreenScale, kMaxScreenScale)
ClampedConvergence(text) ==
    Clamp(text[2].value, kMinStereoConvergence, kMaxStereoConvergence)
ThirdIsInteger(text) ==
    Len(text) >= 3 /\ text[3].kind = "numeral" /\ text[3].value % 100000 = 0
ThirdAbsentOrMalformed(text) == Len(text) < 3 \/ text[3].kind = "word"

\* C23: loadPresentationSettings keeps the defaults (0.62, -0.04, Anchored)
\* when the file is absent or its first two values do not parse as floats;
\* otherwise scale and convergence are the parsed values clamped, and the
\* view mode is Classic for an integer third value <= 0, Anchored for one
\* > 0, and the default (Anchored) when the third value is absent or
\* malformed.
C23_LoadFollowsFile ==
    [][LoadsSettings
       => LET text == settingsFile.text
          IN IF ~floatParses(text, 1) \/ ~floatParses(text, 2)
             THEN /\ app'.screenScale_ = kDefaultScreenScale
                  /\ app'.stereoConvergence_ = kDefaultStereoConvergence
                  /\ app'.viewMode_ = "Anchored"
             ELSE /\ app'.screenScale_ = ClampedScale(text)
                  /\ app'.stereoConvergence_ = ClampedConvergence(text)
                  /\ (ThirdIsInteger(text) /\ text[3].value <= 0
                         => app'.viewMode_ = "Classic")
                  /\ (ThirdIsInteger(text) /\ text[3].value > 0
                         => app'.viewMode_ = "Anchored")
                  /\ (ThirdAbsentOrMalformed(text) => app'.viewMode_ = "Anchored")]_vars

\* A step in which loadPresentationSettings reads a file the app saved.
LoadsSaved == LoadsSettings /\ settingsFile.from # <<>>

\* C22 as stated: saving the settings and then loading them yields the
\* same screen scale, stereo convergence and view mode, for every scale in
\* [0.20, 1.00], convergence in [-0.08, 0.08] and either view mode.
C22_RoundTripIsExact ==
    [][LoadsSaved => presentationOf(app') = settingsFile.from]_vars

\* C22: saving the settings and then loading them yields the same view mode,
\* and the scale and convergence rounded to four decimals: each within
\* 0.00005 of the saved value, and equal to it when the saved value has no
\* more than four decimals (as 0.5 and 0.02, and every value loaded from a
\* file the app saved).
C22_RoundTripToFourDecimals ==
    [][LoadsSaved
       => LET saved == settingsFile.from
          IN /\ app'.viewMode_ = saved.mode
             /\ Abs(app'.screenScale_ - saved.scale) <= 5
             /\ Abs(app'.stereoConvergence_ - saved.convergence) <= 5
             /\ app'.screenScale_ % 10 = 0
             /\ app'.stereoConvergence_ % 10 = 0
             /\ (saved.scale % 10 = 0 => app'.screenScale_ = saved.scale)
             /\ (saved.convergence % 10 = 0
                   => app'.stereoConvergence_ = saved.convergence)]_vars

\* The app has loaded the file it saved from scale 0.5, convergence 0.02 in
\* Anchored mode, and holds these again.
C22_Witness ==
    /\ app.presentationLoaded_
    /\ obs.loadedFrom # <<>>
    /\ obs.loadedFrom.from = [scale |-> 50000, convergence |-> 2000, mode |-> "Anchored"]
    /\ presentationOf(app) = obs.loadedFrom.from

\* The app has loaded a file it saved from values of five decimals, in
\* Classic mode, and holds other values than it saved.
C22_WitnessRounded ==
    /\ app.presentationLoaded_
    /\ obs.loadedFrom # <<>>
    /\ obs.loadedFrom.from # <<>>
    /\ obs.loadedFrom.from.scale % 10 # 0
    /\ obs.loadedFrom.from.mode = "Classic"
    /\ presentationOf(app) # obs.loadedFrom.from

\* The app has loaded a file whose third value is a word.
C23_WitnessMalformedMode ==
    /\ app.presentationLoaded_
    /\ obs.loadedFrom # <<>>
    /\ Len(obs.loadedFrom.text) = 3
    /\ obs.loadedFrom.text[3].kind = "word"
    /\ app.viewMode_ = "Classic"

(***************************************************************************)
(* Claims checked under SpecXrError (per-eye failures)                     *)
(***************************************************************************)
\* The eyes whose xrAcquireSwapchainImage or xrWaitSwapchainImage failed in
\* the last renderFrame.
EyesFailed == {e \in EyeIndices : call.eyeOutcome[e] \in {"acquireFail", "waitFail"}}

\* C24: when xrAcquireSwapchainImage or xrWaitSwapchainImage fails for one eye
\* during renderFrame, that eye is not drawn and not released, the other eye
\* is still taken through the loop (drawn when its own calls succeed and a
\* frame is uploaded), xrEndFrame is still called, the session is still
\* running and the failure requests no exit.
C24_FailedEyeAloneIsSkipped ==
    (call.op = "renderFrame" /\ EyesFailed # {}) =>
        /\ \A e \in EyesFailed :
              /\ call.eyePath[e] = "none"
              /\ call.drawn[e] = <<>>
              /\ e \notin call.released
        /\ \A o \in EyeIndices \ EyesFailed :
              /\ call.eyeOutcome[o] \in {"ok", "noContext"}
              /\ o \in call.acquired /\ o \in call.released
              /\ (call.eyeOutcome[o] = "ok" /\ xr.frameReady_) => call.eyePath[o] # "none"
        /\ call.frameEnded
        /\ xr.sessionRunning_
        /\ xr.exitRequested_ = call.exitPolled

\* The left eye's image could not be acquired; the right eye was drawn and
\* the frame ended.
C24_Witness ==
    /\ call.op = "renderFrame"
    /\ call.eyeOutcome[0] = "acquireFail"
    /\ call.eyeOutcome[1] = "ok"
    /\ call.eyePath[1] = "classic"
    /\ call.frameEnded
    /\ call.ret
    /\ xr.sessionRunning_ /\ ~xr.exitRequested_

\* The left eye's wait failed after its image was acquired; the right eye
\* was drawn.
C24_WitnessWait ==
    /\ call.op = "renderFrame"
    /\ call.eyeOutcome[0] = "waitFail"
    /\ 0 \in call.acquired
    /\ call.eyePath[1] = "classic"
    /\ call.frameEnded

(***************************************************************************)
(* Claims checked under SpecXrAnchor (re-capture of the head origin)       *)
(***************************************************************************)
\* A step that switches depth-metadata or world-anchored mode on.
EntersAnchoringMode ==
    \/ xr'.depthMetadataEnabled_ /\ ~xr.depthMetadataEnabled_
    \/ xr'.worldAnchoredEnabled_ /\ ~xr.worldAnchoredEnabled_

\* A step that enables a mode that is enabled already, or applies the
\* presentation settings without entering a mode.
EnablesAgain ==
    \/ SetWorldAnchoredEnabled /\ xr.worldAnchoredEnabled_ /\ xr'.worldAnchoredEnabled_
    \/ SetDepthMetadataEnabled /\ xr.depthMetadataEnabled_ /\ xr'.depthMetadataEnabled_
    \/ ApplyPresentationConfig(AnchorApps) /\ ~EntersAnchoringMode

\* C25: a captured head origin is given up for a new capture only by a
\* false->true change of world-anchored or depth-metadata mode, by
\* resetWorldAnchor, by a session begin, or together with the session (by
\* shutdown, which initialize runs first), after which a frame is rendered
\* only once a session has begun;
\* the frame that follows captures the average of the two eye positions; and
\* enabling a mode that is already enabled, alone or by
\* applyPresentationConfig, leaves the captured origin as it is.
C25_RecaptureOnlyOnEdges ==
    [][/\ (xr.headOriginSet_ /\ ~xr'.headOriginSet_)
             => \/ EntersAnchoringMode
                \/ ResetWorldAnchor
                \/ call'.sessionBegan
                \/ ~xr'.sessionRunning_
       /\ (call'.op = "renderFrame" /\ call'.located /\ ~xr.sessionRunning_)
             => call'.sessionBegan
       /\ (call'.op = "renderFrame" /\ call'.located
              /\ (~xr.headOriginSet_ \/ call'.sessionBegan))
             => /\ xr'.headOriginSet_
                /\ xr'.headOrigin_ = Midpoint(EyePosition(call'.head, 0),
                                              EyePosition(call'.head, 1))
                /\ call'.worldAnchor = xr'.headOrigin_
       /\ EnablesAgain
             => /\ xr'.headOriginSet_ = xr.headOriginSet_
                /\ xr'.headOrigin_ = xr.headOrigin_]_vars

\* World-anchored mode has been enabled while it was enabled, under an
\* origin captured away from the zero position: the origin is still held.
C25_Witness ==
    /\ call.op = "none"
    /\ xr.worldAnchoredEnabled_
    /\ xr.sessionRunning_
    /\ xr.headOriginSet_
    /\ xr.headOrigin_ # ZeroVector
    /\ xr.screenScale_ = kDefaultScreenScale + kScreenScaleStep

(***************************************************************************)
(* Claims checked under SpecWalk (the navigation layer)                    *)
(***************************************************************************)
\* The App's walkthrough state: offset X, Y, Z, yaw and pitch.
WalkStateOf(a) ==
    <<a.walkOffsetX_, a.walkOffsetY_, a.walkOffsetZ_, a.walkYaw_, a.walkPitch_>>

\* A step that is a tick which ran the emulator.
EmulatingTick == obs'.ticks = obs.ticks + 1 /\ obs'.emulated

\* The navigation layer was on in the tick a step makes: the renderer is
\* initialized, the view mode is Anchored when applyDepthWalkthroughControls
\* runs (after the tick's own view-mode toggle) and a grip is held.
NavigatingTick ==
    EmulatingTick /\ xr'.initialized_ /\ app'.viewMode_ = "Anchored" /\ obs'.grip

\* C26: in every tick with the XR renderer initialized, the view mode
\* Anchored and a grip held, the state passed to setInputState has left,
\* right, up, down, A, L and R all false, and start and select as merged.
C26_NavigationInputWithheld ==
    (obs.emulated /\ xr.initialized_ /\ app.viewMode_ = "Anchored" /\ obs.grip)
        => /\ obs.coreInput \cap {"left", "right", "up", "down", "a", "l", "r"} = {}
           /\ \A b \in {"start", "select"} : b \in obs.coreInput <=> b \in obs.merged

\* Every navigation button and start were held with a grip in Anchored mode:
\* start alone reached the emulator.
C26_Witness ==
    /\ obs.emulated /\ xr.initialized_ /\ app.viewMode_ = "Anchored" /\ obs.grip
    /\ {"left", "right", "up", "down", "a", "start"} \subseteq obs.merged
    /\ ~obs.infoShown \/ obs.adjusted = {}
    /\ obs.coreInput = {"start"}

\* C27: in a tick with Anchored view mode and a grip held, a rising edge of
\* the controller's A leaves offset X, Y, Z, yaw and pitch at zero at the end
\* of the tick, in the App and in the renderer, whatever the sticks and
\* triggers do; with A and the grip held on from such a tick, the next tick
\* does not reset.
C27_ResetOnRisingEdgeOnly ==
    [][/\ (NavigatingTick /\ "a" \in obs'.xrButtons /\ "a" \notin obs.xrButtons)
             => /\ obs'.walkReset
                /\ WalkStateOf(app') = <<0, 0, 0, 0, 0>>
                /\ xr'.walkThroughOffset_ = <<0, 0, 0>>
                /\ xr'.walkThroughYaw_ = 0
                /\ xr'.walkThroughPitch_ = 0
       /\ (NavigatingTick /\ "a" \in obs'.xrButtons
              /\ obs.emulated /\ obs.grip /\ app.viewMode_ = "Anchored"
              /\ "a" \in obs.xrButtons)
             => ~obs'.walkReset]_vars

\* A was pressed with a grip and a deflected stick away from home: the pose
\* is home.
C27_Witness ==
    /\ obs.emulated /\ obs.grip /\ app.viewMode_ = "Anchored"
    /\ obs.walkReset
    /\ obs.ticks = 2
    /\ WalkStateOf(app) = <<0, 0, 0, 0, 0>>
    /\ xr.walkThroughOffset_ = <<0, 0, 0>>

\* A is held on with the grip for a second tick, which moves away from home
\* instead of resetting.
C27_WitnessHeld ==
    /\ obs.emulated /\ obs.grip /\ app.viewMode_ = "Anchored"
    /\ "a" \in obs.xrButtons
    /\ ~obs.walkReset
    /\ obs.ticks = 2
    /\ app.walkOffsetX_ > 0
    /\ app.walkOffsetY_ = 0

\* C28: in a tick where the view mode is not Anchored or no grip is held,
\* offset, yaw and pitch are left unchanged whatever the sticks, triggers and
\* A are, and the input state leaves the navigation layer as it entered it.
C28_NavigationOffLeavesAllUnchanged ==
    [][(EmulatingTick /\ (app'.viewMode_ # "Anchored" \/ ~obs'.grip))
          => /\ WalkStateOf(app') = WalkStateOf(app)
             /\ ~obs'.walkReset
             /\ obs'.coreInput = obs'.navInput]_vars

\* Away from home, all four sticks were deflected and A and R held without a
\* grip: the pose is as it was and A and R reached the emulator.
C28_Witness ==
    /\ obs.emulated /\ ~obs.grip
    /\ app.viewMode_ = "Anchored"
    /\ obs.xrButtons = {"a", "r"}
    /\ obs.coreInput = {"a", "r"}
    /\ app.walkOffsetX_ = kWalkOffsetLimit - 10000

\* In Classic mode a grip was held: the pose is as it was, away from home.
C28_WitnessClassic ==
    /\ obs.emulated /\ obs.grip
    /\ app.viewMode_ = "Classic"
    /\ obs.ticks = 2
    /\ app.walkOffsetX_ = kWalkOffsetLimit - 10000

(***************************************************************************)
(* Claims checked under SpecStandby                                        *)
(***************************************************************************)
\* A step that is a tick which gets past the exit test with no ROM loaded
\* (none before it, and none taken from the picker during it).
NoRomTick ==
    /\ obs'.ticks = obs.ticks + 1
    /\ obs'.sampled
    /\ ~app.romLoaded
    /\ app'.loadedRom \in {<<>>, <<"default">>}

TicksAfter ==
    {tick(app', xr', TakePendingRom(pendingRom'), pickerSignal', obs', in) : in \in ExitTicks}

\* The tick returned before taking a picked ROM, merging input, running the
\* emulator, saving or rendering.
ReturnedEarly(r) ==
    /\ ~r.taken
    /\ r.c = CallIdle
    /\ r.saved = <<>>
    /\ r.o.emulated = (r.o.ticks = obs'.ticks /\ obs'.emulated)
    /\ r.o.frame = (IF r.o.ticks = obs'.ticks THEN obs'.frame ELSE <<>>)

\* C30 as stated: once EXITING or LOSS_PENDING has been reported,
\* exitRequested stays true until the renderer is shut down, and every tick
\* from then on sets running to false and returns before merging input,
\* running the emulator or rendering.
C30_EveryTickStops ==
    [][/\ (xr.exitRequested_ /\ ~xr'.exitRequested_) => xr' = XrConstructed
       /\ (xr'.initialized_ /\ xr'.exitRequested_)
             => \A r \in TicksAfter : ~r.a.running_ /\ ReturnedEarly(r)]_vars

\* C30: once EXITING or LOSS_PENDING has been reported, exitRequested stays
\* true until the renderer is shut down, and every tick from then on returns
\* before merging input, running the emulator or rendering: a tick that
\* finds the app running and resumed sets running to false and leaves the
\* request standing, any other tick changes nothing.
C30_NoTickRunsAfterExit ==
    [][/\ (xr.exitRequested_ /\ ~xr'.exitRequested_) => xr' = XrConstructed
       /\ (xr'.initialized_ /\ xr'.exitRequested_)
             => \A r \in TicksAfter :
                   /\ ReturnedEarly(r)
                   /\ IF app'.running_ /\ app'.resumed_
                      THEN /\ ~r.a.running_
                           /\ r.x.exitRequested_
                           /\ r.o.ticks = obs'.ticks + 1
                           /\ ~r.o.sampled
                      ELSE /\ r.a = app'
                           /\ r.x = xr'
                           /\ r.o = obs']_vars

\* EXITING arrived during the first tick's renderFrame, which ran the
\* emulator; the second tick stopped the app.
C30_Witness ==
    /\ xr.initialized_ /\ xr.exitRequested_
    /\ app.romLoaded
    /\ obs.ticks = 2
    /\ ~obs.sampled /\ ~obs.emulated /\ obs.frame = <<>>
    /\ ~app.running_ /\ app.resumed_
    /\ call = CallIdle

\* The exit request stands while the app is running and paused: a tick
\* entered now returns at once and leaves running set.
C30_WitnessPaused ==
    /\ xr.initialized_ /\ xr.exitRequested_
    /\ app.running_ /\ ~app.resumed_

(***************************************************************************)
(* C31, C37: the grid of buildMesh and the samples it reads                *)
(***************************************************************************)
\* The float i (1..5) of the vertex at grid position (gx, gy) of the mesh
\* buildMesh left in out.
MeshFloat(gx, gy, i) == mesh.out.vertices[(((gy * MeshCols) + gx) * 5) + i]

\* C31: whenever buildMesh has returned true, the last grid column samples
\* px = sampleWidth - 1 and the last grid row samples py = sampleHeight - 1,
\* so every vertex of the last column has u = uvOffsetX + uvScaleX and every
\* vertex of the last row has v = 1.
C31_GridReachesEdges ==
    (mesh.op = "buildMesh" /\ mesh.returned /\ mesh.ret)
    => /\ gridSample(MeshCols - 1, mesh.config.gridStepX, mesh.in.sampleWidth)
              = mesh.in.sampleWidth - 1
       /\ gridSample(MeshRows - 1, mesh.config.gridStepY, mesh.in.sampleHeight)
              = mesh.in.sampleHeight - 1
       /\ \A gy \in 0..(MeshRows - 1) :
             MeshFloat(MeshCols - 1, gy, 4).num
                 = (mesh.in.uvOffsetX + mesh.in.uvScaleX) * MeshFloat(MeshCols - 1, gy, 4).den
       /\ \A gx \in 0..(MeshCols - 1) :
             MeshFloat(gx, MeshRows - 1, 5).num = MeshFloat(gx, MeshRows - 1, 5).den

(***************************************************************************)
(* C32: the depth of a vertex of buildStereoMeshes                         *)
(***************************************************************************)
\* Equality of two fractions with positive denominators, compared by whole
\* part and remainder.
SameFraction(p, q) ==
    /\ p.num \div p.den = q.num \div q.den
    /\ (p.num % p.den) * q.den = (q.num % q.den) * p.den

\* The vertices of the stereo mesh last built, and the disparity estimated
\* for vertex k as buildStereoMeshes estimates it.
StereoVertices == 0..((Len(mesh.outMeshes[1].vertices) \div 5) - 1)
StereoDisparity(k) ==
    vertexDisparity(vip, Max(1, mesh.config.gridStepX), Max(1, mesh.config.gridStepY),
                    mesh.outMeshes[1].gridColumns, k)

\* The third float of a vertex whose depth is z: -(z + baseDistanceMeters).
zWorldOf(z) == [num |-> -(z.num + (mesh.config.baseDistanceMeters * z.den)), den |-> z.den]

\* Every vertex of the stereo mesh last built, from the evaluator as it is
\* now, has the depth reconstructDepthMeters returns for the disparity d
\* estimated at it (where d is a whole number of thousandths of a pixel).
StereoDepthsAreReconstructed ==
    \A k \in StereoVertices :
       \A d \in {StereoDisparity(k)} :
          ((1000 * d.num) % d.den = 0)
          => SameFraction(mesh.outMeshes[1].vertices[(k * 5) + 3],
                          zWorldOf(reconstructDepthMeters(mesh.config,
                                                          (1000 * d.num) \div d.den)))

\* C32: every buildStereoMeshes call that builds its meshes gives each
\* vertex the depth that reconstructDepthMeters returns for the disparity
\* estimated at that vertex, under the same config.
C32_StereoDepthIsReconstructDepth ==
    [][(mesh' # mesh /\ mesh'.op = "buildStereoMeshes" /\ mesh'.ret)
          => StereoDepthsAreReconstructed']_vars

(***************************************************************************)
(* Claims checked under SpecAudio                                          *)
(***************************************************************************)
\* The frames of a sequence of chunks, in order.
RECURSIVE Frames(_)
Frames(chunks) == IF chunks = <<>> THEN <<>> ELSE Head(chunks) \o Frames(Tail(chunks))

\* The chunks that hold a frame, in order.
NonEmpty(chunks) == SelectSeq(chunks, LAMBDA chunk : chunk # <<>>)

\* The last tick called pumpAudio() and its ensureStarted() returned true.
Pumped == obs.audio.called /\ obs.audio.started

\* C33: whenever pumpAudio has run its loop, every chunk it drained holds at
\* most 2048 frames, every chunk but the last holds exactly 2048 and the last
\* fewer (or none), the chunks handed to writeFrames are the non-empty chunks
\* drained, each once and in drain order, and the loop made its last drain
\* as soon as fewer than 2048 frames were left: the chunks are the queue as
\* the call found it, cut every 2048 frames.
C33_PumpDrainsInChunks ==
    Pumped
    => LET drained == obs.audio.drained
           n == Len(drained)
       IN /\ n = (Len(obs.audio.before) \div kAudioChunkFrames) + 1
          /\ \A i \in 1..(n - 1) : Len(drained[i]) = kAudioChunkFrames
          /\ Len(drained[n]) < kAudioChunkFrames
          /\ Frames(drained) = obs.audio.before
          /\ obs.audio.written = NonEmpty(drained)

\* Five frames were queued with chunks of two: two full chunks and a short
\* one were drained and written.
C33_Witness ==
    /\ Pumped
    /\ Len(obs.audio.before) = (2 * kAudioChunkFrames) + 1
    /\ Len(obs.audio.written) = 3
    /\ Len(obs.audio.written[3]) = 1
    /\ app.audioQueue_ = <<>>

\* The queue held a whole number of chunks: the loop ended on an empty chunk,
\* which was not written.
C33_WitnessEmptyLast ==
    /\ Pumped
    /\ Len(obs.audio.before) = 2 * kAudioChunkFrames
    /\ Len(obs.audio.drained) = 3
    /\ Len(obs.audio.written) = 2

\* The ensureStarted() call of the last tick found a stream open that an
\* earlier call had opened for the same request (pumpAudio always requests
\* audioSampleRate() and 2 channels).
StreamWasOpen(a) == a.audioPlayer_.stream_

\* C40: every ensureStarted call that finds the stream an earlier call
\* opened for the same sample rate and channel count returns true and
\* neither closes nor opens a stream, whatever sample rate and channel count
\* the device granted.
C40_EnsureStartedIsIdempotent ==
    [][(StreamWasOpen(app) /\ obs'.ticks = obs.ticks + 1 /\ obs'.audio.called)
          => /\ obs'.audio.started
             /\ ~obs'.audio.closed
             /\ ~obs'.audio.opened
             /\ app'.audioPlayer_ = app.audioPlayer_]_vars

(***************************************************************************)
(* C34: what unloads the running ROM                                       *)
(***************************************************************************)
\* C34: a ROM that is loaded stays loaded through every step that is not a
\* shutdown: a step either leaves the ROM loaded (the same one, or the one a
\* successful load put in its place) or constructs the App anew.  A failed
\* load and the default-ROM probe of APP_CMD_INIT_WINDOW are such steps.
C34_LoadedRomStaysLoaded ==
    [][app.romLoaded => (app'.romLoaded \/ app' = AppConstructed)]_vars

(***************************************************************************)
(* Claims checked under SpecPicker                                         *)
(***************************************************************************)
\* C35: at most one ROM picker is open at any time, and while the picker
\* this App opened has not had its result (ROM or dismissal) consumed by a
\* tick, pickerRequested_ is true: no result of another picker clears it.
C35_OnePickerOutstanding ==
    /\ Cardinality(obs.pickers.open) <= 1
    /\ obs.pickers.owner # 0 => app.pickerRequested_

\* The part of C35 about the flag alone.
C35_RequestedWhileOwnPickerPending ==
    obs.pickers.owner # 0 => app.pickerRequested_

\* C39: tryLoadDefaultRom opens the picker at most once between the
\* construction of the App, or the last successful load of a ROM from a
\* picker, and the next such load: after its picker was dismissed or its ROM
\* rejected, the retries open no picker.
C39_AutoPickerAtMostOnce ==
    obs.pickers.autoCount <= 1

\* The auto-launched picker is gone and its result consumed, no ROM is
\* loaded, and the tick just taken retried the default ROM.
C39_Witness ==
    /\ obs.pickers.autoCount = 1
    /\ obs.pickers.open = {}
    /\ obs.pickers.owner = 0
    /\ obs.sampled /\ obs.reloadTried
    /\ ~app.romLoaded
    /\ ~app.pickerRequested_

\* The same after a ROM from the picker was rejected.
C39_WitnessRejected ==
    /\ C39_Witness
    /\ obs.pickers.launched = 1
    /\ pendingRom = PendingEmpty /\ ~pickerSignal
    /\ obs.ticks = 1
    /\ obs.pickers.romFrom = 0 /\ obs.pickers.signalFrom = 0

(***************************************************************************)
(* C36: acquired swapchain images at xrEndFrame                            *)
(***************************************************************************)
\* C36: when a renderFrame call reaches xrEndFrame, every eye whose
\* swapchain image it acquired with xrAcquireSwapchainImage has been
\* released with xrReleaseSwapchainImage, whatever failed in between.
C36_AcquiredImagesAreReleased ==
    (call.op = "renderFrame" /\ call.frameEnded) => call.acquired \subseteq call.released

\* C37: every index at which a buildMesh call that passed the validation
\* reads the disparity array lies inside the disparityWidth x
\* disparityHeight elements the caller passed.
C37_ReadsStayInsideArray ==
    mesh.op = "buildMesh" => \A index \in mesh.reads : InArray(mesh.in.disparity, index)

(***************************************************************************)
(* C38: the App renders through the classic path only                      *)
(***************************************************************************)
\* C38: in the App the renderer's depth-metadata mode is off and it holds no
\* depth metadata; usedLayerRendering and usedDepthFallback are false; and
\* every eye a renderFrame of the app draws takes the classic path, with the
\* anchored quad when the view mode is Anchored and the flat screen-scaled
\* quad when it is Classic.
C38_AppRendersClassicOnly ==
    /\ ~xr.depthMetadataEnabled_
    /\ ~xr.metadataReady_ /\ ~xr.layerDataReady_
    /\ xr.worldUpload_ = <<>> /\ xr.disparityUpload_ = <<>>
    /\ ~xr.renderDebugState_.usedLayerRendering
    /\ ~xr.renderDebugState_.usedDepthFallback
    /\ call.op = "renderFrame" =>
          \A e \in EyeIndices :
              /\ call.eyePath[e] \in {"none", "classic"}
              /\ call.eyePath[e] = "classic" =>
                    call.quad[e] = IF isWorldAnchoredMode(app) THEN "anchored" ELSE "screen"

\* A frame the app rendered through XR in Classic view mode.
C38_Witness ==
    /\ call.op = "renderFrame" /\ call.ret
    /\ \A e \in EyeIndices : call.eyePath[e] = "classic" /\ call.quad[e] = "screen"
    /\ xr.renderDebugState_.usedClassic
    /\ app.viewMode_ = "Classic"

\* A frame the app rendered through XR in Anchored view mode.
C38_WitnessAnchored ==
    /\ call.op = "renderFrame" /\ call.ret
    /\ \A e \in EyeIndices : call.eyePath[e] = "classic" /\ call.quad[e] = "anchored"
    /\ xr.renderDebugState_.usedClassic
    /\ app.viewMode_ = "Anchored"

====
